---- MODULE Spec2Model ----
(***************************************************************************)
(* The CPU driver of 6502.ts (src/machine/cpu/StateMachineCpu.ts) as a     *)
(* state machine: one action per public method, cycle() modelled with its  *)
(* private helpers _fetch and _pollInterrupts.  The micro-machines that    *)
(* the driver runs (boot, interrupt entry, the opcode table) live in       *)
(* src/machine/cpu/statemachine/ and are modelled from their contracts in  *)
(* the design specification.                                               *)
(***************************************************************************)
EXTENDS Integers, Sequences, FiniteSets, TLC

\* ------------------------------------------------------------------------
\* Bounds of the model
\* ------------------------------------------------------------------------

\* number of _fetch calls explored in one behaviour
MaxFetch == 3

\* cycles of a Runner test that are followed
MaxStep == 2

\* ------------------------------------------------------------------------
\* Program constants
\* ------------------------------------------------------------------------

FlagB == 16
FlagI == 4
FlagE == 32
FlagC == 1
FlagZ == 2
FlagV == 64
FlagN == 128

StackBase == 256
ResetVector == 65532
IrqVector == 65534
NmiVector == 65530

OpNOP == 234
OpSTAzp == 133
OpPLP == 40
OpInvalid == 2

\* length of the boot sequence
BootCycles == 7

\* bytes the bus returns on an opcode fetch
Opcodes == {OpNOP, OpSTAzp, OpPLP, OpInvalid}

\* bytes the bus returns on a read of an interrupt or reset vector
VectorVals == {255}

\* bytes the bus returns on every other read
DataVals == {0, 255}

\* the bytes a read of addr may return
BusValues(addr) == IF addr >= NmiVector THEN VectorVals ELSE DataVals

\* the RNG collaborator: absent, or one that returns its upper bound
Rngs == {"none", "max"}

\* ------------------------------------------------------------------------
\* Bit arithmetic on the flag byte (mask is a power of two)
\* ------------------------------------------------------------------------

HasBit(f, mask) == (f \div mask) % 2 = 1

SetBit(f, mask) == IF HasBit(f, mask) THEN f ELSE f + mask

ClearBit(f, mask) == IF HasBit(f, mask) THEN f - mask ELSE f

\* ------------------------------------------------------------------------
\* State
\* ------------------------------------------------------------------------

VARIABLES
    state,                  \* CpuInterface.State: a x y s p flags irq nmi
    executionState,         \* "boot" | "fetch" | "execute"
    lastResult,             \* _lastResult, NoResult for null
    operand,                \* byte latched inside the running micro-machine
    interruptPending,       \* _interruptPending: level of the IRQ line
    nmiPending,             \* _nmiPending
    halt,                   \* _halt
    pollInterruptsAfterLastInstruction,  \* carry-over of the poll to _fetch
    lastInstructionPointer, \* _lastInstructionPointer
    invalidInstructionCallback, \* TRUE when a callback is installed
    rng,                    \* the RNG collaborator given to the constructor
    last,                   \* what the most recent call did (bus, events)
    running,                \* micro-machine started most recently
    polledInInstr,          \* a Result of the running machine was polled
    lastPoll,               \* what the poll step saw, if any since the fetch
    pulse,                  \* IRQ line history since the most recent poll
    nmiReq,                 \* nmi() was called while running, cycles since
    nFetch,                 \* number of _fetch calls so far
    nCycle,                 \* cycle() calls that ran since reset(), capped
    nmiDuring,              \* "nop" once nmi() was called inside a NOP
    entry,                  \* bus log of the interrupt entry in progress
    fetchP,                 \* p as the most recent _fetch found it, or 0
    haltReq,                \* halt() was called, no resume()/reset() since
    mem,                    \* the memory behind the bus (instruction runs)
    busLog,                 \* bus operations with their bytes, in order
    runner,                 \* the test Runner's expected state and step
    initial,                \* CPU state and memory a run started from
    fm,                     \* the fields of a FrameManager, <<>> for none
    pf                      \* the fields of a Playfield, <<>> for none

vars == <<state, executionState, lastResult, operand, interruptPending,
          nmiPending, halt, pollInterruptsAfterLastInstruction,
              lastInstructionPointer, invalidInstructionCallback, rng,
          last, running, polledInInstr, lastPoll, pulse, nmiReq, nFetch,
          nCycle, nmiDuring, entry, fetchP,
          haltReq, mem, busLog, runner,
          initial, fm, pf>>

\* what the driver itself owns (everything but the observation variables)
driverVars == <<state, executionState, lastResult, operand, interruptPending,
                nmiPending, halt, pollInterruptsAfterLastInstruction,
                    lastInstructionPointer, invalidInstructionCallback>>

\* StateMachineInterface.Result; machine and next stand for the nextStep
\* closure of the micro-machine that produced the Result
NoResult ==
    [cycleType |-> "none", address |-> 0, value |-> 0,
     pollInterrupts |-> FALSE, machine |-> "none", next |-> "none"]

ReadResult(m, addr, nxt, poll) ==
    [cycleType |-> "read", address |-> addr, value |-> 0,
     pollInterrupts |-> poll, machine |-> m, next |-> nxt]

WriteResult(m, addr, val, nxt, poll) ==
    [cycleType |-> "write", address |-> addr, value |-> val,
     pollInterrupts |-> poll, machine |-> m, next |-> nxt]

NoPoll == [ran |-> FALSE, line |-> FALSE, iset |-> FALSE, nmi |-> FALSE,
           pulse |-> "none"]

\* ------------------------------------------------------------------------
\* Micro-machines (statemachine/vector, statemachine/Compiler)
\* ------------------------------------------------------------------------

Machines ==
    {"boot", "nmi", "irq", "nop", "sta", "plp", "php", "jsr", "rts", "jmpInd",
     "bpl", "bmi", "bvc", "bvs", "bcc", "bcs", "bne", "beq",
     "asl", "lsr", "rol", "ror", "inc", "dec", "dcp",
     "aslA", "lsrA", "rolA", "rorA",
     "ldaAbsX", "ldaAbsY", "ldaIndY", "staAbsX", "staAbsY", "staIndY"}

\* further entries of the opcode table, opcode :> machine: the branches
\* $10..$F0, JMP (indirect) $6C, the zero-page RMW forms $06 $46 $26 $66
\* $E6 $C6 and the undocumented DCP $C7, the accumulator forms $0A $4A $2A
\* $6A, LDA $BD $B9 $B1 and STA $9D $99 $91 with indexed addressing, PHP
\* $08, JSR $20 and RTS $60
MoreOperations ==
    (16 :> "bpl") @@ (48 :> "bmi") @@ (80 :> "bvc") @@ (112 :> "bvs") @@
    (144 :> "bcc") @@ (176 :> "bcs") @@ (208 :> "bne") @@ (240 :> "beq") @@
    (108 :> "jmpInd") @@
    (6 :> "asl") @@ (70 :> "lsr") @@ (38 :> "rol") @@ (102 :> "ror") @@
    (230 :> "inc") @@ (198 :> "dec") @@ (199 :> "dcp") @@
    (10 :> "aslA") @@ (74 :> "lsrA") @@ (42 :> "rolA") @@ (106 :> "rorA") @@
    (189 :> "ldaAbsX") @@ (185 :> "ldaAbsY") @@ (177 :> "ldaIndY") @@
    (157 :> "staAbsX") @@ (153 :> "staAbsY") @@ (145 :> "staIndY") @@
    (8 :> "php") @@ (32 :> "jsr") @@ (96 :> "rts")

\* the opcode table built by the Compiler; "none" is an empty entry
Operations(opcode) ==
    CASE opcode = OpNOP -> "nop"
      [] opcode = OpSTAzp -> "sta"
      [] opcode = OpPLP -> "plp"
      [] opcode \in DOMAIN MoreOperations -> MoreOperations[opcode]
      [] OTHER -> "none"

VectorOf(m) == IF m = "nmi" THEN NmiVector ELSE IrqVector

\* the byte pushed by a hardware interrupt: B clear, E set
PushedFlags(f) == SetBit(ClearBit(f, FlagB), FlagE)

\* machine.reset(undefined): the first Result of a micro-machine
MachineReset(m, st) ==
    CASE m = "boot" -> ReadResult(m, st.p, "pre2", FALSE)
      [] m \in {"nmi", "irq"} -> ReadResult(m, st.p, "pushPch", FALSE)
      [] m = "nop" -> ReadResult(m, st.p, "execute", FALSE)
      [] m = "sta" -> ReadResult(m, st.p, "address", TRUE)
      [] m = "plp" -> ReadResult(m, st.p, "dummy", FALSE)
      [] m \in {"bpl", "bmi", "bvc", "bvs", "bcc", "bcs", "bne", "beq"} ->
            ReadResult(m, st.p, "offset", FALSE)
      [] m \in {"asl", "lsr", "rol", "ror", "inc", "dec", "dcp"} ->
            ReadResult(m, st.p, "address", FALSE)
      [] m \in {"aslA", "lsrA", "rolA", "rorA"} ->
            ReadResult(m, st.p, "acc", FALSE)
      [] m \in {"ldaIndY", "staIndY"} ->
            ReadResult(m, st.p, "pointer", FALSE)
      [] m \in {"jmpInd", "jsr", "ldaAbsX", "ldaAbsY", "staAbsX",
                "staAbsY"} ->
            ReadResult(m, st.p, "lo", FALSE)
      [] m \in {"php", "rts"} -> ReadResult(m, st.p, "implied", FALSE)

\* the outcome of a nextStep call; the latch is dead once the machine is done
Step(st, opr, res) ==
    [state |-> st, operand |-> IF res = NoResult THEN 0 ELSE opr,
     result |-> res]

\* the boot micro-machine: seven reads, then p := reset vector, I set
BootStep(nxt, value, st, opr) ==
    CASE nxt = "pre2" ->
            Step(st, opr, ReadResult("boot", st.p, "stack1", FALSE))
      [] nxt = "stack1" ->
            Step(st, opr, ReadResult("boot", StackBase + st.s, "stack2",
                FALSE))
      [] nxt = "stack2" ->
            LET st1 == [st EXCEPT !.s = (st.s - 1) % 256]
            IN  Step(st1, opr,
                     ReadResult("boot", StackBase + st1.s, "stack3", FALSE))
      [] nxt = "stack3" ->
            LET st1 == [st EXCEPT !.s = (st.s - 1) % 256]
            IN  Step(st1, opr,
                     ReadResult("boot", StackBase + st1.s, "vecLo", FALSE))
      [] nxt = "vecLo" ->
            Step([st EXCEPT !.s = (st.s - 1) % 256], opr,
                 ReadResult("boot", ResetVector, "vecHi", FALSE))
      [] nxt = "vecHi" ->
            Step(st, value, ReadResult("boot", ResetVector + 1, "done", FALSE))
      [] nxt = "done" ->
            Step([st EXCEPT !.p = opr + 256 * value,
                            !.flags = SetBit(st.flags, FlagI)],
                 opr, NoResult)

\* the NMI and IRQ entry micro-machines
InterruptStep(m, nxt, value, st, opr) ==
    CASE nxt = "pushPch" ->
            Step([st EXCEPT !.s = (st.s - 1) % 256], opr,
                 WriteResult(m, StackBase + st.s, st.p \div 256, "pushPcl",
                             FALSE))
      [] nxt = "pushPcl" ->
            Step([st EXCEPT !.s = (st.s - 1) % 256], opr,
                 WriteResult(m, StackBase + st.s, st.p % 256, "pushFlags",
                             FALSE))
      [] nxt = "pushFlags" ->
            Step([st EXCEPT !.s = (st.s - 1) % 256], opr,
                 WriteResult(m, StackBase + st.s, PushedFlags(st.flags),
                             "vecLo", FALSE))
      [] nxt = "vecLo" ->
            Step([st EXCEPT !.flags = SetBit(st.flags, FlagI)], opr,
                 ReadResult(m, VectorOf(m), "vecHi", FALSE))
      [] nxt = "vecHi" ->
            Step(st, value, ReadResult(m, VectorOf(m) + 1, "done", FALSE))
      [] nxt = "done" ->
            Step([st EXCEPT !.p = opr + 256 * value,
                            !.irq = FALSE, !.nmi = FALSE],
                 opr, NoResult)

\* ------------------------------------------------------------------------
\* Further instructions of the opcode table. Their Results never ask for the
\* interrupt poll here: they are run with no request pending, where the
\* poll step changes nothing.
\* ------------------------------------------------------------------------

Branches == {"bpl", "bmi", "bvc", "bvs", "bcc", "bcs", "bne", "beq"}

RmwMemory == {"asl", "lsr", "rol", "ror", "inc", "dec", "dcp"}

RmwAccumulator == {"aslA", "lsrA", "rolA", "rorA"}

IndexedLoads == {"ldaAbsX", "ldaAbsY", "ldaIndY"}

IndexedStores == {"staAbsX", "staAbsY", "staIndY"}

\* the flag a branch tests, and the value of it that takes the branch
BranchFlag(m) ==
    CASE m \in {"bpl", "bmi"} -> FlagN
      [] m \in {"bvc", "bvs"} -> FlagV
      [] m \in {"bcc", "bcs"} -> FlagC
      [] OTHER -> FlagZ

BranchTaken(m, f) ==
    HasBit(f, BranchFlag(m)) = (m \in {"bmi", "bvs", "bcs", "beq"})

\* mutant: the branch offset is taken as unsigned
SignExtend_Unsigned(b) == b

\* signExtend(offset) of the relative addressing mode
SignExtend(b) == IF b >= 128 THEN b - 256 ELSE b

WithBit(f, mask, on) == IF on THEN SetBit(f, mask) ELSE ClearBit(f, mask)

\* setNZ(v): N from bit 7, Z from v = 0
SetNZ(f, v) == WithBit(WithBit(f, FlagN, v >= 128), FlagZ, v = 0)

CarryIn(f) == IF HasBit(f, FlagC) THEN 1 ELSE 0

SamePage(a, b) == a \div 256 = b \div 256

\* (base & 0xFF00) | (eff & 0xFF)
WrongPage(base, eff) == (base \div 256) * 256 + (eff % 256)

\* mutant: the pointer of JMP (indirect) is incremented across the page
TargetHigh_Carry(ptr) == (ptr + 1) % 65536

\* hi:((lo+1) & 0xFF): where JMP (indirect) reads the target's high byte
TargetHigh(ptr) == (ptr \div 256) * 256 + ((ptr + 1) % 256)

\* the memory form of an accumulator RMW operation
RmwOf(m) ==
    CASE m = "aslA" -> "asl"
      [] m = "lsrA" -> "lsr"
      [] m = "rolA" -> "rol"
      [] m = "rorA" -> "ror"
      [] OTHER -> m

\* the byte an RMW operation makes of v
RmwValue(m, v, f) ==
    CASE m = "asl" -> (2 * v) % 256
      [] m = "lsr" -> v \div 2
      [] m = "rol" -> ((2 * v) % 256) + CarryIn(f)
      [] m = "ror" -> (v \div 2) + 128 * CarryIn(f)
      [] m = "inc" -> (v + 1) % 256
      [] m \in {"dec", "dcp"} -> (v + 255) % 256

\* the flags after an RMW operation on v; DCP compares A with the result
RmwFlags(m, v, f, a) ==
    LET n == RmwValue(m, v, f)
    IN  CASE m \in {"asl", "rol"} -> WithBit(SetNZ(f, n), FlagC, v >= 128)
          [] m \in {"lsr", "ror"} -> WithBit(SetNZ(f, n), FlagC, v % 2 = 1)
          [] m = "dcp" ->
                WithBit(SetNZ(f, (a + 256 - n) % 256), FlagC, a >= n)
          [] OTHER -> SetNZ(f, n)

\* mutant: the first write of an RMW instruction already has the new byte
RmwDummyWrite_Modified(original, modified) == modified

\* the byte of the first write of an RMW instruction
RmwDummyWrite(original, modified) == original

\* mutant: an indexed store takes the dummy read only on a page crossing
IndexedDummy_OnCrossing(m, base, eff) == ~SamePage(base, eff)

\* whether an indexed access takes the dummy read
IndexedDummy(m, base, eff) == m \in IndexedStores \/ ~SamePage(base, eff)

IndexOf(m, st) == IF m \in {"ldaAbsX", "staAbsX"} THEN st.x ELSE st.y

\* the final access of an indexed load or store
IndexedAccess(m, eff, st) ==
    IF m \in IndexedStores
    THEN WriteResult(m, eff, st.a, "done", FALSE)
    ELSE ReadResult(m, eff, "load", FALSE)

\* mutant: PHP pushes the flag byte as it is
PhpByte_Raw(f) == f

\* the byte PHP pushes: B and E set
PhpByte(f) == SetBit(SetBit(f, FlagB), FlagE)

\* mutant: JSR pushes the address of the next instruction
JsrReturn_Next(p) == (p + 1) % 65536

\* the address JSR pushes: the current p, which is at its last byte
JsrReturn(p) == p

\* relative addressing and the branch operations
BranchStep(m, nxt, value, st, opr) ==
    CASE nxt = "offset" ->
            LET st1 == [st EXCEPT !.p = (st.p + 1) % 65536]
            IN  IF BranchTaken(m, st.flags)
                THEN Step(st1, value, ReadResult(m, st1.p, "add", FALSE))
                ELSE Step(st1, opr, NoResult)
      [] nxt = "add" ->
            LET target == (st.p + SignExtend(opr) + 65536) % 65536
                st1 == [st EXCEPT !.p = target]
            IN  IF SamePage(st.p, target)
                THEN Step(st1, opr, NoResult)
                ELSE Step(st1, opr,
                          ReadResult(m, WrongPage(st.p, target), "fix",
                                     FALSE))
      [] nxt = "fix" -> Step(st, opr, NoResult)

\* JMP (indirect)
JmpIndStep(m, nxt, value, st, opr) ==
    CASE nxt = "lo" ->
            LET st1 == [st EXCEPT !.p = (st.p + 1) % 65536]
            IN  Step(st1, value, ReadResult(m, st1.p, "hi", FALSE))
      [] nxt = "hi" ->
            LET ptr == opr + 256 * value
            IN  Step([st EXCEPT !.p = (st.p + 1) % 65536], ptr,
                     ReadResult(m, ptr, "targetLo", FALSE))
      [] nxt = "targetLo" ->
            Step(st, value, ReadResult(m, TargetHigh(opr), "targetHi", FALSE))
      [] nxt = "targetHi" ->
            Step([st EXCEPT !.p = opr + 256 * value], opr, NoResult)

\* the RMW operations, zero-page and accumulator forms
RmwStep(m, nxt, value, st, opr) ==
    CASE nxt = "acc" ->
            Step([st EXCEPT !.a = RmwValue(RmwOf(m), st.a, st.flags),
                            !.flags = RmwFlags(RmwOf(m), st.a, st.flags,
                                               st.a)],
                 opr, NoResult)
      [] nxt = "address" ->
            Step([st EXCEPT !.p = (st.p + 1) % 65536], value,
                 ReadResult(m, value, "value", FALSE))
      [] nxt = "value" ->
            Step(st, opr,
                 WriteResult(m, opr,
                             RmwDummyWrite(value,
                                           RmwValue(m, value, st.flags)),
                             "modify", FALSE))
      [] nxt = "modify" ->
            Step([st EXCEPT !.flags = RmwFlags(m, value, st.flags, st.a)],
                 opr,
                 WriteResult(m, opr, RmwValue(m, value, st.flags), "done",
                             FALSE))
      [] nxt = "done" -> Step(st, opr, NoResult)

\* LDA and STA with absolute,X / absolute,Y / (indirect),Y addressing
IndexedStep(m, nxt, value, st, opr) ==
    CASE nxt = "pointer" ->
            Step([st EXCEPT !.p = (st.p + 1) % 65536], value,
                 ReadResult(m, value, "ptrLo", FALSE))
      [] nxt = "ptrLo" ->
            Step(st, value, ReadResult(m, (opr + 1) % 256, "hi", FALSE))
      [] nxt = "lo" ->
            LET st1 == [st EXCEPT !.p = (st.p + 1) % 65536]
            IN  Step(st1, value, ReadResult(m, st1.p, "hi", FALSE))
      [] nxt = "hi" ->
            LET base == opr + 256 * value
                eff == (base + IndexOf(m, st)) % 65536
                st1 == IF m \in {"ldaIndY", "staIndY"} THEN st
                       ELSE [st EXCEPT !.p = (st.p + 1) % 65536]
            IN  IF IndexedDummy(m, base, eff)
                THEN Step(st1, eff,
                          ReadResult(m, WrongPage(base, eff), "fix", FALSE))
                ELSE Step(st1, eff, IndexedAccess(m, eff, st))
      [] nxt = "fix" -> Step(st, opr, IndexedAccess(m, opr, st))
      [] nxt = "load" ->
            Step([st EXCEPT !.a = value, !.flags = SetNZ(st.flags, value)],
                 opr, NoResult)
      [] nxt = "done" -> Step(st, opr, NoResult)

\* PHP, JSR and RTS
StackStep(m, nxt, value, st, opr) ==
    CASE m = "php" /\ nxt = "implied" ->
            Step([st EXCEPT !.s = (st.s + 255) % 256], opr,
                 WriteResult(m, StackBase + st.s, PhpByte(st.flags), "done",
                             FALSE))
      [] m = "php" /\ nxt = "done" -> Step(st, opr, NoResult)
      [] m = "jsr" /\ nxt = "lo" ->
            Step([st EXCEPT !.p = (st.p + 1) % 65536], value,
                 ReadResult(m, StackBase + st.s, "stack", FALSE))
      [] m = "jsr" /\ nxt = "stack" ->
            Step([st EXCEPT !.s = (st.s + 255) % 256], opr,
                 WriteResult(m, StackBase + st.s, JsrReturn(st.p) \div 256,
                             "pushPcl", FALSE))
      [] m = "jsr" /\ nxt = "pushPcl" ->
            Step([st EXCEPT !.s = (st.s + 255) % 256], opr,
                 WriteResult(m, StackBase + st.s, JsrReturn(st.p) % 256,
                             "hi", FALSE))
      [] m = "jsr" /\ nxt = "hi" ->
            Step(st, opr, ReadResult(m, st.p, "jump", FALSE))
      [] m = "jsr" /\ nxt = "jump" ->
            Step([st EXCEPT !.p = opr + 256 * value], opr, NoResult)
      [] m = "rts" /\ nxt = "implied" ->
            Step(st, opr, ReadResult(m, StackBase + st.s, "stack", FALSE))
      [] m = "rts" /\ nxt = "stack" ->
            LET st1 == [st EXCEPT !.s = (st.s + 1) % 256]
            IN  Step(st1, opr, ReadResult(m, StackBase + st1.s, "pcl", FALSE))
      [] m = "rts" /\ nxt = "pcl" ->
            LET st1 == [st EXCEPT !.s = (st.s + 1) % 256]
            IN  Step(st1, value,
                     ReadResult(m, StackBase + st1.s, "pch", FALSE))
      [] m = "rts" /\ nxt = "pch" ->
            LET st1 == [st EXCEPT !.p = opr + 256 * value]
            IN  Step(st1, opr, ReadResult(m, st1.p, "inc", FALSE))
      [] m = "rts" /\ nxt = "inc" ->
            Step([st EXCEPT !.p = (st.p + 1) % 65536], opr, NoResult)

\* the instructions of the opcode table
InstructionStep(m, nxt, value, st, opr) ==
    CASE m = "nop" -> Step(st, opr, NoResult)
      [] m = "sta" /\ nxt = "address" ->
            Step([st EXCEPT !.p = (st.p + 1) % 65536], value,
                 WriteResult(m, value, st.a, "done", FALSE))
      [] m = "sta" /\ nxt = "done" -> Step(st, opr, NoResult)
      [] m = "plp" /\ nxt = "dummy" ->
            Step(st, opr, ReadResult(m, StackBase + st.s, "pull", TRUE))
      [] m = "plp" /\ nxt = "pull" ->
            LET st1 == [st EXCEPT !.s = (st.s + 1) % 256]
            IN  Step(st1, opr, ReadResult(m, StackBase + st1.s, "load", FALSE))
      [] m = "plp" /\ nxt = "load" ->
            Step([st EXCEPT !.flags = PushedFlags(value)], opr, NoResult)
      [] m \in Branches -> BranchStep(m, nxt, value, st, opr)
      [] m = "jmpInd" -> JmpIndStep(m, nxt, value, st, opr)
      [] m \in RmwMemory \cup RmwAccumulator ->
            RmwStep(m, nxt, value, st, opr)
      [] m \in IndexedLoads \cup IndexedStores ->
            IndexedStep(m, nxt, value, st, opr)
      [] m \in {"php", "jsr", "rts"} -> StackStep(m, nxt, value, st, opr)

\* result.nextStep(value)
NextStep(res, value, st, opr) ==
    CASE res.machine = "boot" -> BootStep(res.next, value, st, opr)
      [] res.machine \in {"nmi", "irq"} ->
            InterruptStep(res.machine, res.next, value, st, opr)
      [] OTHER -> InstructionStep(res.machine, res.next, value, st, opr)

\* ------------------------------------------------------------------------
\* The driver: StateMachineCpu
\* ------------------------------------------------------------------------

\* rng.int(upper), or 0 without an RNG
RngInt(r, upper) == IF r = "none" THEN 0 ELSE upper

\* mutant: the flag byte is taken from the RNG as it comes
ResetState_RawFlags(r) ==
    [a |-> RngInt(r, 255), x |-> RngInt(r, 255), y |-> RngInt(r, 255),
     s |-> 253, p |-> RngInt(r, 65535), flags |-> RngInt(r, 255),
     irq |-> FALSE, nmi |-> FALSE]

\* mutant: the stack pointer starts at the top of the stack page
ResetState_StackTop(r) ==
    [a |-> RngInt(r, 255), x |-> RngInt(r, 255), y |-> RngInt(r, 255),
     s |-> 255, p |-> RngInt(r, 65535),
     flags |-> SetBit(SetBit(SetBit(RngInt(r, 255), FlagI), FlagE), FlagB),
     irq |-> FALSE, nmi |-> FALSE]

\* the CpuInterface.State that reset() leaves
ResetState(r) ==
    [a |-> RngInt(r, 255), x |-> RngInt(r, 255), y |-> RngInt(r, 255),
     s |-> 253, p |-> RngInt(r, 65535),
     flags |-> SetBit(SetBit(SetBit(RngInt(r, 255), FlagI), FlagE), FlagB),
     irq |-> FALSE, nmi |-> FALSE]

\* mutant: the halt flag freezes no cycle
FrozenByHalt_Never(h, res) == FALSE

\* mutant: halt freezes every cycle, writes included
FrozenByHalt_Always(h, res) == h

\* mutant: halt freezes on a read Result only, not on a fetch
FrozenByHalt_ReadOnly(h, res) == h /\ res.cycleType = "read"

\* the test that opens cycle(): halted and the next step is a read
FrozenByHalt(h, res) == h /\ (res = NoResult \/ res.cycleType = "read")

\* mutant: the I flag does not mask the IRQ line
PollInterrupts_IgnoreI(st, nmiP, irqP) ==
    LET st0 == [st EXCEPT !.irq = FALSE]
    IN  IF nmiP
        THEN [state |-> [st0 EXCEPT !.nmi = TRUE], nmiPending |-> FALSE]
        ELSE [state |-> IF irqP /\ ~st0.nmi
                        THEN [st0 EXCEPT !.irq = TRUE]
                        ELSE st0,
              nmiPending |-> nmiP]

\* mutant: the NMI request stays pending after it was promoted
PollInterrupts_KeepPending(st, nmiP, irqP) ==
    LET st0 == [st EXCEPT !.irq = FALSE]
    IN  IF nmiP
        THEN [state |-> [st0 EXCEPT !.nmi = TRUE], nmiPending |-> TRUE]
        ELSE [state |-> IF irqP /\ ~st0.nmi /\ ~HasBit(st0.flags, FlagI)
                        THEN [st0 EXCEPT !.irq = TRUE]
                        ELSE st0,
              nmiPending |-> nmiP]

\* mutant: the I flag masks the NMI too
PollInterrupts_NmiMasked(st, nmiP, irqP) ==
    LET st0 == [st EXCEPT !.irq = FALSE]
    IN  IF nmiP /\ ~HasBit(st0.flags, FlagI)
        THEN [state |-> [st0 EXCEPT !.nmi = TRUE], nmiPending |-> FALSE]
        ELSE [state |-> IF irqP /\ ~st0.nmi /\ ~HasBit(st0.flags, FlagI)
                        THEN [st0 EXCEPT !.irq = TRUE]
                        ELSE st0,
              nmiPending |-> nmiP]

\* mutant: the poll step latches the IRQ beside the NMI
PollInterrupts_Both(st, nmiP, irqP) ==
    [state |-> [st EXCEPT !.nmi = st.nmi \/ nmiP,
                          !.irq = irqP /\ ~HasBit(st.flags, FlagI)],
     nmiPending |-> FALSE]

\* _pollInterrupts
PollInterrupts(st, nmiP, irqP) ==
    LET st0 == [st EXCEPT !.irq = FALSE]
    IN  IF nmiP
        THEN [state |-> [st0 EXCEPT !.nmi = TRUE], nmiPending |-> FALSE]
        ELSE [state |-> IF irqP /\ ~st0.nmi /\ ~HasBit(st0.flags, FlagI)
                        THEN [st0 EXCEPT !.irq = TRUE]
                        ELSE st0,
              nmiPending |-> nmiP]

\* the poll of a cycle() whose Result has pollInterrupts set
PollAtResult(res, st, nmiP, irqP) ==
    IF res.pollInterrupts
    THEN PollInterrupts(st, nmiP, irqP)
    ELSE [state |-> st, nmiPending |-> nmiP]

\* mutant: _fetch never polls
PollAtFetch_Never(carry, st, nmiP, irqP) == [state |-> st, nmiPending |-> nmiP]

\* the carried-over poll that opens _fetch
PollAtFetch(carry, st, nmiP, irqP) ==
    IF carry
    THEN PollInterrupts(st, nmiP, irqP)
    ELSE [state |-> st, nmiPending |-> nmiP]

\* the three-way choice of _fetch
FetchSelect(st) ==
    IF st.nmi THEN "nmi" ELSE IF st.irq THEN "irq" ELSE "op"

\* mutant: p is advanced at every fetch
FetchAdvance_Always(sel, st) == [st EXCEPT !.p = (st.p + 1) % 65536]

\* mutant: p is incremented without the 16-bit mask
FetchAdvance_NoWrap(sel, st) ==
    IF sel = "op" THEN [st EXCEPT !.p = st.p + 1] ELSE st

\* mutant: p is not advanced at a fetch
FetchAdvance_Never(sel, st) == st

\* p after the choice of _fetch
FetchAdvance(sel, st) ==
    IF sel = "op" THEN [st EXCEPT !.p = (st.p + 1) % 65536] ELSE st

\* mutant: a poll is carried over to the next fetch by an interrupt entry too
FetchCarry_Always(sel) == TRUE

\* mutant: no poll is carried over to the next fetch
FetchCarry_Never(sel) == FALSE

\* _pollInterruptsAfterLastInstruction after the choice of _fetch
FetchCarry(sel) == sel = "op"

\* _bus.read(address) and _bus.write(address, value) as seen on the bus
BusRead(addr) == [kind |-> "read", address |-> addr, value |-> 0]

BusWrite(addr, val) == [kind |-> "write", address |-> addr, value |-> val]

\* the driver's fields as a cycle() call finds them
Pre ==
    [state |-> state, executionState |-> executionState,
     lastResult |-> lastResult, operand |-> operand,
     interruptPending |-> interruptPending, nmiPending |-> nmiPending,
     halt |-> halt,
     pollInterruptsAfterLastInstruction |->
         pollInterruptsAfterLastInstruction,
     lastInstructionPointer |-> lastInstructionPointer,
     callback |-> invalidInstructionCallback]

\* what a poll step that runs now sees
PollSeen == [ran |-> TRUE, line |-> interruptPending,
             iset |-> HasBit(state.flags, FlagI), nmi |-> nmiPending,
             pulse |-> pulse]

\* no interrupt entry is in progress
NoEntry == [prev |-> "none", during |-> "none", bus |-> <<>>]

\* the count of cycle() calls stops one past the boot sequence
CountCycle(n) == IF n > BootCycles THEN n ELSE n + 1

\* the record of a call; for a cycle() kind is "frozen", "fetch", "execute"
\* or "throw", for a reset() "reset", for any other call "none"; pre holds
\* the fields the call found
CycleCall(kind, pre) ==
    [kind |-> kind, pre |-> pre, bus |-> <<>>, events |-> <<>>,
     started |-> "none", opcode |-> 0, cbCalls |-> 0, poll |-> NoPoll,
     prev |-> "none", afterPolled |-> FALSE, nmiReq |-> FALSE,
     n |-> 0, entry |-> NoEntry]

\* the most recent call was neither a cycle() nor a reset()
NoCall == CycleCall("none", [halt |-> FALSE])

\* what a reset() call found of the fields it overwrites
ResetPre ==
    [halt |-> halt, executionState |-> executionState,
     nmiPending |-> nmiPending, interruptPending |-> interruptPending,
     nmi |-> state.nmi, irq |-> state.irq]

\* no memory is attached: the bus bytes are chosen call by call
NoMem == <<>>

\* no test is being run
NoRunner == [s |-> 0, p |-> 0, step |-> 0, did |-> "none", prev |-> 0]

Init ==
    /\ fm = <<>>
    /\ pf = <<>>
    /\ rng \in Rngs
    /\ state = ResetState(rng)
    /\ executionState = "boot"
    /\ lastResult = MachineReset("boot", state)
    /\ operand = 0
    /\ interruptPending = FALSE
    /\ nmiPending = FALSE
    /\ halt = FALSE
    /\ pollInterruptsAfterLastInstruction = FALSE
    /\ lastInstructionPointer = 0
    /\ invalidInstructionCallback = FALSE
    /\ last = NoCall
    /\ running = "boot"
    /\ polledInInstr = FALSE
    /\ lastPoll = NoPoll
    /\ pulse = "none"
    /\ nmiReq = FALSE
    /\ nFetch = 0
    /\ nCycle = 0
    /\ nmiDuring = "none"
    /\ entry = NoEntry
    /\ fetchP = 0
    /\ haltReq = FALSE
    /\ mem = NoMem
    /\ busLog = <<>>
    /\ runner = NoRunner
    /\ initial = [state |-> state, mem |-> mem]

\* reset()
Reset ==
    /\ state' = ResetState(rng)
    /\ executionState' = "boot"
    /\ interruptPending' = FALSE
    /\ nmiPending' = FALSE
    /\ halt' = FALSE
    /\ lastResult' = MachineReset("boot", state')
    /\ lastInstructionPointer' = 0
    /\ operand' = 0
    /\ last' = CycleCall("reset", ResetPre)
    /\ running' = "boot"
    /\ polledInInstr' = FALSE
    /\ lastPoll' = NoPoll
    /\ pulse' = "none"
    /\ nmiReq' = FALSE
    /\ nCycle' = 0
    /\ nmiDuring' = "none"
    /\ entry' = NoEntry
    /\ fetchP' = 0
    /\ haltReq' = FALSE
    /\ UNCHANGED <<pollInterruptsAfterLastInstruction,
                   invalidInstructionCallback, rng, nFetch,
                   mem, busLog, runner,
                   initial, fm, pf>>

\* mutant: the line stays asserted once it was raised
SetInterruptLine_Sticky(cur, i) == cur \/ i

\* the level setInterrupt(i) leaves on the IRQ line
SetInterruptLine(cur, i) == i

\* setInterrupt(i)
SetInterrupt ==
    \E i \in BOOLEAN :
        /\ interruptPending' = SetInterruptLine(interruptPending, i)
        /\ pulse' = IF i THEN "raised"
                    ELSE IF pulse = "raised" THEN "cancelled" ELSE pulse
        /\ last' = NoCall
        /\ UNCHANGED <<state, executionState, lastResult, operand, nmiPending,
                       halt, pollInterruptsAfterLastInstruction,
                           lastInstructionPointer, invalidInstructionCallback,
                               rng,
                       running, polledInInstr, lastPoll, nmiReq, nFetch,
                       nCycle, nmiDuring, entry, fetchP,
                       haltReq, mem, busLog, runner,
                       initial, fm, pf>>

\* mutant: nmi() sets the nmi latch at once
NmiLatches_Immediate(st) == [st EXCEPT !.nmi = TRUE]

\* the CPU state as nmi() leaves it: the request is only recorded
NmiLatches(st) == st

\* nmi()
Nmi ==
    /\ nmiPending' = TRUE
    /\ state' = NmiLatches(state)
    /\ nmiReq' = IF ~halt /\ executionState # "boot" THEN TRUE ELSE nmiReq
    /\ nmiDuring' = IF executionState = "execute" /\ running = "nop"
                    THEN running ELSE nmiDuring
    /\ last' = NoCall
    /\ UNCHANGED <<executionState, lastResult, operand,
                   interruptPending, halt, pollInterruptsAfterLastInstruction,
                       lastInstructionPointer,
                   invalidInstructionCallback, rng, running, polledInInstr,
                       lastPoll, pulse,
                   nFetch,
                   nCycle, entry, fetchP,
                   haltReq, mem, busLog, runner,
                   initial, fm, pf>>

\* halt()
Halt ==
    /\ halt' = TRUE
    /\ haltReq' = TRUE
    /\ nmiReq' = FALSE
    /\ last' = NoCall
    /\ UNCHANGED <<state, executionState, lastResult, operand,
                   interruptPending, nmiPending,
                       pollInterruptsAfterLastInstruction,
                   lastInstructionPointer, invalidInstructionCallback, rng,
                       running,
                   polledInInstr, lastPoll, pulse, nFetch,
                   nCycle, nmiDuring, entry, fetchP,
                   mem, busLog, runner,
                   initial, fm, pf>>

\* mutant: resume() leaves the halt flag as it is
Resumed_Stuck(h) == h

\* the halt flag after resume()
Resumed(h) == FALSE

\* resume()
Resume ==
    /\ halt' = Resumed(halt)
    /\ haltReq' = FALSE
    /\ last' = NoCall
    /\ UNCHANGED <<state, executionState, lastResult, operand,
                   interruptPending, nmiPending,
                       pollInterruptsAfterLastInstruction,
                   lastInstructionPointer, invalidInstructionCallback, rng,
                       running,
                   polledInInstr, lastPoll, pulse, nmiReq, nFetch,
                   nCycle, nmiDuring, entry, fetchP,
                   mem, busLog, runner,
                   initial, fm, pf>>

\* setInvalidInstructionCallback(cb), cb a function or null
SetInvalidInstructionCallback ==
    \E cb \in BOOLEAN :
        /\ invalidInstructionCallback' = cb
        /\ last' = NoCall
        /\ UNCHANGED <<state, executionState, lastResult, operand,
                       interruptPending, nmiPending, halt,
                           pollInterruptsAfterLastInstruction,
                       lastInstructionPointer, rng, running, polledInInstr,
                       lastPoll, pulse, nmiReq, nFetch,
                       nCycle, nmiDuring, entry, fetchP,
                       haltReq, mem, busLog, runner,
                       initial, fm, pf>>

\* mutant: the pointer is taken after p was advanced
FetchPointer_After(before, after) == after

\* _lastInstructionPointer as _fetch sets it, p being before on entry
FetchPointer(before, after) == before

\* mutant: the callback is not invoked
InvokesCallback_Never(operation, installed) == FALSE

\* mutant: an installed callback is invoked at every fetch
InvokesCallback_Always(operation, installed) == installed

\* _fetch invokes the callback: the table entry is empty, a callback is set
InvokesCallback(operation, installed) == operation = "none" /\ installed

\* mutant: _fetch enters phase execute with an empty table entry too
PhaseAfterFetch_Always(operation, phase) == "execute"

\* executionState after _fetch: unchanged when the table entry is empty
PhaseAfterFetch(operation, phase) ==
    IF operation = "none" THEN phase ELSE "execute"

\* the name under which a fetch is remembered as the running machine
Started(operation, cb) ==
    IF operation # "none" THEN operation
    ELSE IF cb THEN "invalidCb" ELSE "invalid"

\* the order of the steps of _fetch
FetchEvents(carry, cb) ==
    (IF carry THEN <<"poll">> ELSE <<>>)
    \o <<"setLastIP", "read", "select">>
    \o (IF cb THEN <<"callback">> ELSE <<>>)

\* _fetch, the bus returning opcode for the read at p
Fetch(opcode) ==
    LET carry == pollInterruptsAfterLastInstruction
        pr == PollAtFetch(carry, state, nmiPending, interruptPending)
        sel == FetchSelect(pr.state)
        operation == IF sel = "op" THEN Operations(opcode) ELSE sel
        st2 == FetchAdvance(sel, pr.state)
        cb == InvokesCallback(operation, invalidInstructionCallback)
    IN  /\ nmiPending' = pr.nmiPending
        /\ lastInstructionPointer' = FetchPointer(state.p, st2.p)
        /\ pollInterruptsAfterLastInstruction' = FetchCarry(sel)
        /\ state' = st2
        /\ executionState' = PhaseAfterFetch(operation, executionState)
        /\ lastResult' = IF operation = "none" THEN lastResult
                          ELSE MachineReset(operation, st2)
        /\ last' = [CycleCall("fetch", Pre) EXCEPT
                      !.bus = <<BusRead(state.p)>>,
                      !.events = FetchEvents(carry, cb),
                      !.started = IF operation = "none" THEN "invalid"
                                  ELSE sel,
                      !.opcode = opcode,
                      !.cbCalls = IF cb THEN 1 ELSE 0,
                      !.poll = IF carry THEN PollSeen ELSE lastPoll,
                      !.prev = running,
                      !.afterPolled = polledInInstr,
                      !.nmiReq = nmiReq,
                      !.n = CountCycle(nCycle),
                      !.entry = [prev |-> running, during |-> nmiDuring,
                                 bus |-> <<>>]]
        /\ running' = Started(operation, cb)
        /\ polledInInstr' = FALSE
        /\ lastPoll' = NoPoll
        /\ pulse' = IF carry THEN "none" ELSE pulse
        /\ nmiReq' = FALSE
        /\ nFetch' = nFetch + 1
        /\ nCycle' = CountCycle(nCycle)
        /\ nmiDuring' = "none"
        /\ fetchP' = state.p
        /\ entry' = IF sel = "op" THEN NoEntry
                    ELSE [prev |-> running, during |-> nmiDuring,
                          bus |-> <<BusRead(state.p)>>]
        /\ UNCHANGED <<operand, interruptPending,
                       invalidInstructionCallback, rng,
                       runner,
                       initial, fm, pf>>

\* mutant: a write puts the wrong byte on the bus
ExecuteBusOp_WrongValue(res) ==
    IF res.cycleType = "read"
    THEN BusRead(res.address)
    ELSE BusWrite(res.address, 0)

\* the bus access of the boot/execute branch of cycle()
ExecuteBusOp(res) ==
    IF res.cycleType = "read"
    THEN BusRead(res.address)
    ELSE BusWrite(res.address, res.value)

\* the order of the steps of the boot/execute branch of cycle()
ExecuteEvents(res) ==
    <<res.cycleType>>
    \o (IF res.pollInterrupts THEN <<"poll", "clearPoll">> ELSE <<>>)
    \o <<"nextStep">>

\* mutant: the poll at a Result does not cancel the poll at the next fetch
CarryAfterResult_Keep(res, carry) == carry

\* _pollInterruptsAfterLastInstruction after the poll test of cycle()
CarryAfterResult(res, carry) == IF res.pollInterrupts THEN FALSE ELSE carry

\* mutant: the phase becomes fetch after every step
PhaseAfterStep_Eager(res, phase) == "fetch"

\* mutant: the phase is not changed when the micro-machine is done
PhaseAfterStep_Stay(res, phase) == phase

\* executionState after nextStep returned res
PhaseAfterStep(res, phase) == IF res = NoResult THEN "fetch" ELSE phase

\* mutant: nextStep is given the value field of the Result on a read too
StepValue_ResultValue(res, busValue) == res.value

\* the value cycle() hands to nextStep: the byte read or the byte written
StepValue(res, busValue) ==
    IF res.cycleType = "write" THEN res.value ELSE busValue

\* the boot/execute branch of cycle(), the bus returning busValue on a read
Execute(busValue) ==
    LET res == lastResult
        value == StepValue(res, busValue)
        pr == PollAtResult(res, state, nmiPending, interruptPending)
        polled == res.pollInterrupts
        nx == NextStep([res EXCEPT !.pollInterrupts = FALSE], value,
                       pr.state, operand)
        log == [entry EXCEPT !.bus = Append(entry.bus, ExecuteBusOp(res))]
    IN  /\ state' = nx.state
        /\ operand' = nx.operand
        /\ lastResult' = nx.result
        /\ executionState' = PhaseAfterStep(nx.result, executionState)
        /\ nmiPending' = pr.nmiPending
        /\ pollInterruptsAfterLastInstruction' = CarryAfterResult(res,
            pollInterruptsAfterLastInstruction)
        /\ last' = [CycleCall("execute", Pre) EXCEPT
                      !.bus = <<ExecuteBusOp(res)>>,
                      !.events = ExecuteEvents(res),
                      !.opcode = busValue,
                      !.n = CountCycle(nCycle),
                      !.entry = IF nx.result = NoResult /\ entry # NoEntry
                                THEN log ELSE NoEntry]
        /\ polledInInstr' = (polledInInstr \/ polled)
        /\ lastPoll' = IF polled THEN PollSeen ELSE lastPoll
        /\ pulse' = IF polled THEN "none" ELSE pulse
        /\ nCycle' = CountCycle(nCycle)
        /\ entry' = IF nx.result = NoResult \/ entry = NoEntry
                    THEN NoEntry ELSE log
        /\ UNCHANGED <<interruptPending, lastInstructionPointer,
                       invalidInstructionCallback, rng, running, nmiReq,
                           nFetch,
                           nmiDuring, fetchP,
                           runner,
                           initial, fm, pf>>

\* cycle()
RunCycle ==
    IF executionState = "fetch"
    THEN /\ nFetch < MaxFetch
         /\ \E opcode \in Opcodes : Fetch(opcode)
    ELSE IF lastResult.cycleType = "read"
    THEN \E value \in BusValues(lastResult.address) : Execute(value)
    ELSE IF lastResult.cycleType = "write"
    THEN Execute(lastResult.value)
    ELSE /\ last' = [CycleCall("throw", Pre) EXCEPT !.events = <<"throw">>]
         /\ UNCHANGED <<state, executionState, lastResult, operand,
                        interruptPending, nmiPending,
                            pollInterruptsAfterLastInstruction,
                        lastInstructionPointer, invalidInstructionCallback,
                            rng, running,
                        polledInInstr, lastPoll, pulse, nmiReq, nFetch,
                        nCycle, nmiDuring, entry, fetchP,
                        runner,
                        initial, fm, pf>>

Cycle ==
    /\ UNCHANGED <<mem, busLog, halt, haltReq>>
    /\ IF FrozenByHalt(halt, lastResult)
       THEN /\ last' = CycleCall("frozen", Pre)
            /\ UNCHANGED <<state, executionState, lastResult, operand,
                           interruptPending, nmiPending,
                               pollInterruptsAfterLastInstruction,
                           lastInstructionPointer, invalidInstructionCallback,
                               rng, running,
                           polledInInstr, lastPoll, pulse, nmiReq, nFetch,
                           nCycle, nmiDuring, entry, fetchP,
                           runner,
                           initial, fm, pf>>
       ELSE RunCycle

Next ==
    \/ Reset
    \/ SetInterrupt
    \/ Nmi
    \/ Halt
    \/ Resume
    \/ SetInvalidInstructionCallback
    \/ Cycle

Spec == Init /\ [][Next]_vars

\* ------------------------------------------------------------------------
\* Properties
\* ------------------------------------------------------------------------

\* the most recent call was a cycle()
WasCycle == last.kind \in {"frozen", "fetch", "execute", "throw"}

\* the poll step ran during the most recent cycle()
Polled == \E i \in DOMAIN last.events : last.events[i] = "poll"

\* the most recent cycle() was entered halted with a read or a fetch next
HaltedOnRead ==
    /\ last.pre.halt
    /\ (last.pre.lastResult = NoResult
        \/ last.pre.lastResult.cycleType = "read")

\* C1: every cycle() performs at most one bus operation, and exactly one
\* unless it is frozen by halt on a read: the read of p in phase fetch, the
\* access named by the current Result in phases boot and execute.
C1_OneBusOperation ==
    WasCycle =>
        /\ Len(last.bus) <= 1
        /\ ~HaltedOnRead => Len(last.bus) = 1
        /\ (~HaltedOnRead /\ last.pre.executionState = "fetch") =>
               last.bus[1] = [kind |-> "read", address |-> last.pre.state.p,
                              value |-> 0]
        /\ (~HaltedOnRead /\ last.pre.executionState # "fetch") =>
               /\ last.bus[1].kind = last.pre.lastResult.cycleType
               /\ last.bus[1].address = last.pre.lastResult.address
               /\ last.pre.lastResult.cycleType = "write" =>
                      last.bus[1].value = last.pre.lastResult.value

\* C1 witness: a fetch that read an opcode without table entry did one read
C1_Witness ==
    /\ last.started = "invalid"
    /\ Len(last.bus) = 1
    /\ last.bus[1].kind = "read"

\* C2: halted with a read or a fetch as next step, cycle() touches neither
\* the bus nor registers, flags, latches, requests, phase, Result or the last
\* instruction pointer.
C2_FrozenChangesNothing ==
    (WasCycle /\ HaltedOnRead) =>
        /\ last.bus = <<>>
        /\ state = last.pre.state
        /\ interruptPending = last.pre.interruptPending
        /\ nmiPending = last.pre.nmiPending
        /\ executionState = last.pre.executionState
        /\ lastResult = last.pre.lastResult
        /\ lastInstructionPointer = last.pre.lastInstructionPointer
        /\ halt

\* C2 witness: a frozen cycle() in phase fetch with an NMI request pending
C2_Witness ==
    /\ last.kind = "frozen"
    /\ executionState = "fetch"
    /\ lastResult = NoResult
    /\ nmiPending

\* C3: halted with a write as current Result, cycle() issues that write with
\* the Result's address and value and advances the micro-machine; the CPU
\* freezes only when the next step is a read or a fetch.
C3_HaltedWriteIssued ==
    WasCycle =>
        /\ (last.pre.halt /\ last.pre.lastResult.cycleType = "write") =>
               /\ last.bus = <<[kind |-> "write",
                                address |-> last.pre.lastResult.address,
                                value |-> last.pre.lastResult.value]>>
               /\ last.events = <<"write", "nextStep">>
               /\ lastResult =
                      NextStep(last.pre.lastResult,
                               last.pre.lastResult.value, last.pre.state,
                               last.pre.operand).result
        /\ last.kind = "frozen" => last.pre.lastResult.cycleType # "write"

\* C3 witness: a write issued while halted, the next step a write again
C3_Witness ==
    /\ last.kind = "execute"
    /\ last.pre.halt
    /\ last.bus[1].kind = "write"
    /\ last.bus[1].value = 255
    /\ lastResult.cycleType = "write"

\* the most recent call was a cycle() that ran _fetch
WasFetch == last.kind = "fetch"

\* C4: at a fetch the nmi latch starts the NMI entry machine, else the irq
\* latch starts the IRQ entry machine, both without advancing p and whatever
\* the opcode read; with neither latch set p is incremented modulo 2^16 and
\* the opcode is dispatched through the table.
C4_FetchDispatch ==
    WasFetch =>
        /\ state.nmi =>
               /\ last.started = "nmi"
               /\ lastResult = MachineReset("nmi", state)
               /\ state.p = last.pre.state.p
        /\ (~state.nmi /\ state.irq) =>
               /\ last.started = "irq"
               /\ lastResult = MachineReset("irq", state)
               /\ state.p = last.pre.state.p
        /\ (~state.nmi /\ ~state.irq) =>
               /\ state.p = (last.pre.state.p + 1) % 65536
               /\ IF Operations(last.opcode) = "none"
                  THEN last.started = "invalid" /\ lastResult = NoResult
                  ELSE /\ last.started = "op"
                       /\ lastResult.machine = Operations(last.opcode)

\* C4 witness: a fetch started the IRQ entry, p still at the opcode it read
C4_Witness ==
    /\ WasFetch
    /\ last.started = "irq"
    /\ Operations(last.opcode) # "none"
    /\ state.p = last.pre.state.p
    /\ executionState = "execute"

\* C5 as claimed: a fetch never starts the IRQ entry while I is set.
C5_Original ==
    (WasFetch /\ last.started = "irq") => ~HasBit(state.flags, FlagI)

\* C5, amended: a fetch starts the IRQ entry only with the irq latch set, and
\* the latch is set only by a poll step that found I clear; I itself may have
\* been set between that poll step and the fetch.
C5_IrqLatchedWithIClear ==
    (WasFetch /\ last.started = "irq") =>
        /\ state.irq
        /\ last.poll.ran
        /\ ~last.poll.iset

\* C5 witness: the IRQ entry is started by a fetch at which I is set
C5_Witness ==
    /\ WasFetch
    /\ last.started = "irq"
    /\ HasBit(state.flags, FlagI)
    /\ last.prev = "plp"

\* C6: the poll step makes state.nmi true and clears the request when an NMI
\* request is pending, leaving state.irq false; otherwise state.irq becomes
\* true exactly when the line is asserted, state.nmi is false and I is clear.
\* The level of the IRQ line is not changed.
C6_PollStep ==
    (WasCycle /\ Polled) =>
        /\ interruptPending = last.pre.interruptPending
        /\ ~nmiPending
        /\ IF last.pre.nmiPending
           THEN state.nmi /\ ~state.irq
           ELSE /\ state.nmi = last.pre.state.nmi
                /\ state.irq = (/\ last.pre.interruptPending
                                /\ ~last.pre.state.nmi
                                /\ ~HasBit(last.pre.state.flags, FlagI))

\* C6 witness: a poll step found both an NMI request and the line asserted
C6_Witness ==
    /\ WasCycle
    /\ Polled
    /\ last.pre.nmiPending
    /\ last.pre.interruptPending
    /\ ~HasBit(last.pre.state.flags, FlagI)
    /\ state.nmi

\* C7: a Result with pollInterrupts set gets its bus access, then the poll
\* step, then its flag cleared, then nextStep; the fetch that follows the
\* instruction does not run the poll step again.
C7_PollAtResult ==
    /\ (last.kind = "execute" /\ last.pre.lastResult.pollInterrupts) =>
           /\ last.events = <<last.pre.lastResult.cycleType, "poll",
                              "clearPoll", "nextStep">>
           /\ Len(last.bus) = 1
           /\ ~pollInterruptsAfterLastInstruction
    /\ (WasFetch /\ last.afterPolled) => ~Polled

\* C7 witness: the fetch after a polled instruction, an NMI request pending
C7_Witness ==
    /\ WasFetch
    /\ last.afterPolled
    /\ last.pre.nmiPending
    /\ last.started = "op"

\* C8: after an instruction of the opcode table none of whose Results was
\* polled, the next fetch runs the poll step exactly once, before the opcode
\* read and before the choice between NMI, IRQ and dispatch.
C8_PollAtFetch ==
    (WasFetch /\ last.prev \in {"nop", "sta", "plp"} /\ ~last.afterPolled) =>
        /\ Len(last.events) >= 4
        /\ last.events[1] = "poll"
        /\ SubSeq(last.events, 2, 4) = <<"setLastIP", "read", "select">>
        /\ \A i \in DOMAIN last.events : last.events[i] = "poll" => i = 1
        /\ last.poll.ran

\* C8 witness: the fetch after a NOP polled and took the NMI it found
C8_Witness ==
    /\ WasFetch
    /\ last.prev = "nop"
    /\ ~last.afterPolled
    /\ last.poll.nmi
    /\ last.started = "nmi"

C10_IrqMaskableLevel ==
    /\ (WasFetch /\ last.started = "irq") =>
           /\ last.poll.ran
           /\ last.poll.line
           /\ ~last.poll.iset
           /\ last.poll.pulse # "cancelled"
    /\ (last.kind = "execute" /\ Polled
            /\ (lastPoll.iset \/ lastPoll.pulse = "cancelled")) => ~state.irq
    /\ (WasFetch /\ Polled
            /\ (last.poll.iset \/ last.poll.pulse = "cancelled")) => ~state.irq

\* C10 witness: with I clear, a fetch polled after the line was raised and
\* lowered again, and dispatched the opcode
C10_Witness ==
    /\ WasFetch
    /\ Polled
    /\ last.poll.pulse = "cancelled"
    /\ ~last.poll.iset
    /\ last.started = "op"

\* C11: a fetch with neither latch set that reads an opcode without table
\* entry invokes the callback once if one is installed (and not otherwise),
\* starts no micro-machine, leaves the current Result empty and the phase
\* fetch; a fetch that starts a machine does not invoke the callback.
C11_InvalidOpcode ==
    WasFetch =>
        /\ (~state.nmi /\ ~state.irq /\ Operations(last.opcode) = "none") =>
               /\ last.started = "invalid"
               /\ last.cbCalls = (IF last.pre.callback THEN 1 ELSE 0)
               /\ last.pre.callback =>
                      last.events[Len(last.events)] = "callback"
               /\ lastResult = NoResult
               /\ executionState = "fetch"
        /\ (state.nmi \/ state.irq \/ Operations(last.opcode) # "none") =>
               /\ last.cbCalls = 0
               /\ executionState = "execute"

\* C11 witness: a fetch of an opcode without table entry, callback invoked
C11_Witness ==
    /\ WasFetch
    /\ last.started = "invalid"
    /\ last.opcode = OpInvalid
    /\ last.cbCalls = 1
    /\ executionState = "fetch"

\* C12 as claimed: without callback and without interrupt request, the
\* cycle() after a fetch of an opcode without table entry reads the address
\* of that opcode again.
C12_Original ==
    (/\ WasFetch
     /\ last.prev = "invalid"
     /\ ~last.pre.nmiPending
     /\ ~last.pre.interruptPending) =>
        last.bus[1].address = last.pre.lastInstructionPointer

\* C12, amended: a fetch of an opcode without table entry, no callback
\* installed, leaves the phase fetch and p one past the opcode; the next
\* cycle() that runs is a fetch that reads that next address, and the phase
\* stays fetch after it only if it again finds no table entry.
C12_InvalidAdvances ==
    /\ (WasFetch /\ last.started = "invalid") =>
           /\ executionState = "fetch"
           /\ state.p = (last.pre.state.p + 1) % 65536
    /\ (WasFetch /\ last.prev = "invalid") =>
           /\ last.pre.executionState = "fetch"
           /\ last.pre.lastResult = NoResult
           /\ last.bus[1].address =
                  (last.pre.lastInstructionPointer + 1) % 65536
           /\ (executionState = "fetch") = (last.started = "invalid")
    /\ (running = "invalid" /\ last.kind \in {"frozen", "fetch"}) =>
           executionState = "fetch"

\* C12 witness: two fetches in a row found no table entry, no callback was
\* installed, the second read address 0 after the first read $FFFF
C12_Witness ==
    /\ WasFetch
    /\ last.prev = "invalid"
    /\ last.started = "invalid"
    /\ last.cbCalls = 0
    /\ last.pre.lastInstructionPointer = 65535
    /\ last.bus[1].address = 0
    /\ executionState = "fetch"

\* the most recent call was a reset()
WasReset == last.kind = "reset"

\* C13: whatever the state it is called in, reset() leaves a, x, y, p and
\* the flag byte as the RNG gave them (zero without RNG) with I, E and B
\* forced on, s = $FD, both latches false, no NMI request, the IRQ line low,
\* halt cleared, the phase boot and the first Result of the boot machine as
\* current Result.
C13_Reset ==
    WasReset =>
        /\ state.a = RngInt(rng, 255)
        /\ state.x = RngInt(rng, 255)
        /\ state.y = RngInt(rng, 255)
        /\ state.p = RngInt(rng, 65535)
        /\ state.s = 253
        /\ \E f \in 0..255 :
               /\ f = RngInt(rng, 255)
               /\ state.flags = SetBit(SetBit(SetBit(f, FlagI), FlagE), FlagB)
        /\ HasBit(state.flags, FlagI)
        /\ HasBit(state.flags, FlagE)
        /\ HasBit(state.flags, FlagB)
        /\ ~state.irq
        /\ ~state.nmi
        /\ ~nmiPending
        /\ ~interruptPending
        /\ ~halt
        /\ executionState = "boot"
        /\ lastResult = MachineReset("boot", state)
        /\ lastResult.cycleType = "read"

\* C13 witness: reset() called on a halted CPU in the middle of an
\* instruction, the nmi latch set and the IRQ line asserted
C13_Witness ==
    /\ WasReset
    /\ last.pre.halt
    /\ last.pre.executionState = "execute"
    /\ last.pre.nmi
    /\ last.pre.interruptPending
    /\ rng = "max"
    /\ state.flags = 255

\* C14 as claimed: without RNG, reset() leaves a = x = y = 0, s = $FD and
\* the flag byte $24.
C14_Original ==
    (WasReset /\ rng = "none") =>
        /\ state.a = 0
        /\ state.x = 0
        /\ state.y = 0
        /\ state.s = 253
        /\ state.flags = 36

\* C14, amended: without RNG, reset() leaves a = x = y = 0, s = $FD and the
\* flag byte $34: I, E and B set, every other flag clear.
C14_ResetWithoutRng ==
    (WasReset /\ rng = "none") =>
        /\ state.a = 0
        /\ state.x = 0
        /\ state.y = 0
        /\ state.s = 253
        /\ state.flags = 52
        /\ state.flags = FlagI + FlagE + FlagB

\* C14 witness: without RNG, reset() called after the boot sequence had
\* moved s and an instruction was running
C14_Witness ==
    /\ WasReset
    /\ rng = "none"
    /\ last.pre.executionState = "execute"
    /\ ~last.pre.halt
    /\ state.s = 253
    /\ state.flags = 52

\* C15: the first seven cycle() calls that run after reset() are bus reads
\* made in phase boot, the sixth of $FFFC and the seventh of $FFFD; after the
\* seventh p is the 16-bit value read from the vector, I is set and the phase
\* is fetch, not before; no cycle() ever leaves the phase boot unless it
\* found it boot.
C15_BootSequence ==
    /\ (WasCycle /\ last.n \in 1..BootCycles) =>
           /\ last.kind = "execute"
           /\ last.pre.executionState = "boot"
           /\ Len(last.bus) = 1
           /\ last.bus[1].kind = "read"
    /\ (WasCycle /\ last.n = 6) =>
           /\ last.bus[1].address = 65532
           /\ operand = last.opcode
    /\ (WasCycle /\ last.n = 7) =>
           /\ last.bus[1].address = 65533
           /\ state.p = last.pre.operand + 256 * last.opcode
           /\ HasBit(state.flags, FlagI)
           /\ executionState = "fetch"
    /\ (WasCycle /\ last.n \in 1..6) => executionState = "boot"
    /\ (WasCycle /\ last.n > BootCycles) => last.pre.executionState # "boot"
    /\ (WasCycle /\ executionState = "boot") =>
           last.pre.executionState = "boot"
    /\ (executionState = "boot") = (nCycle < BootCycles)

\* C15 witness: the seventh cycle() after a reset() that was called in the
\* middle of an instruction; it read $FFFD and left p = $FFFF in phase fetch
C15_Witness ==
    /\ WasCycle
    /\ last.n = 7
    /\ nFetch > 0
    /\ last.bus[1] = [kind |-> "read", address |-> 65533, value |-> 0]
    /\ state.p = 65535
    /\ state.s = 250
    /\ executionState = "fetch"

\* C16: at every point between two calls a, x, y and s are bytes, p is a
\* 16-bit value and the flag byte is a byte with the E bit set.
C16_RegisterWidths ==
    /\ state.a \in 0..255
    /\ state.x \in 0..255
    /\ state.y \in 0..255
    /\ state.s \in 0..255
    /\ state.p \in 0..65535
    /\ state.flags \in 0..255
    /\ HasBit(state.flags, FlagE)

\* C16 witness: a fetch at $FFFF wrapped p to 0 after an interrupt entry,
\* the flag byte as a PLP loaded it from a zero byte, with I set since
C16_Witness ==
    /\ WasFetch
    /\ last.started = "op"
    /\ last.prev \in {"nmi", "irq"}
    /\ last.pre.state.p = 65535
    /\ state.p = 0
    /\ state.flags = 36

\* C17: the last instruction pointer is p as the most recent fetch that ran
\* found it, whether that fetch dispatched an opcode, started an interrupt
\* entry or found no table entry, and 0 if no fetch ran since the last
\* reset(); a frozen cycle() and a boot or execute cycle leave it alone.
C17_LastInstructionPointer ==
    /\ lastInstructionPointer = fetchP
    /\ WasFetch => lastInstructionPointer = last.pre.state.p
    /\ last.kind \in {"frozen", "execute"} =>
           lastInstructionPointer = last.pre.lastInstructionPointer
    /\ WasReset => lastInstructionPointer = 0
    /\ running = "boot" => lastInstructionPointer = 0

\* C17 witness: a cycle() frozen by halt after a fetch at $FFFF that started
\* an interrupt entry; p and the pointer are both $FFFF
C17_Witness ==
    /\ last.kind = "frozen"
    /\ running \in {"nmi", "irq"}
    /\ executionState = "execute"
    /\ state.p = 65535
    /\ lastInstructionPointer = 65535
    /\ nFetch = 3

\* the poll step runs during the call that makes the step
PolledNext == \E i \in DOMAIN last'.events : last'.events[i] = "poll"

\* the call that makes the step is neither a cycle() nor a reset(): it is
\* setInterrupt, nmi, halt, resume or a callback installation
OtherCallNext == last'.kind = "none"

\* one of the latches state.irq and state.nmi changes in the step
LatchChangeNext == state'.irq # state.irq \/ state'.nmi # state.nmi

\* the call that makes the step leaves registers, flags, latches, phase and
\* current Result alone and does not touch the bus
RequestFrameNext ==
    /\ state' = state
    /\ executionState' = executionState
    /\ lastResult' = lastResult
    /\ lastInstructionPointer' = lastInstructionPointer
    /\ last'.bus = <<>>

C19_CycleDefined ==
    /\ last.kind # "throw"
    /\ executionState \in {"boot", "fetch", "execute"}
    /\ executionState # "fetch" =>
           /\ lastResult # NoResult
           /\ lastResult.cycleType \in {"read", "write"}
    /\ executionState = "fetch" => lastResult = NoResult
    /\ (WasCycle /\ last.kind # "frozen"
            /\ last.pre.executionState # "fetch") =>
           last.pre.lastResult.cycleType \in {"read", "write"}

\* C19 witness: a cycle() that ran with an empty current Result, the fetch
\* before it having found no table entry, and started the NMI entry
C19_Witness ==
    /\ WasFetch
    /\ last.pre.lastResult = NoResult
    /\ last.prev = "invalid"
    /\ last.started = "nmi"
    /\ last.pre.interruptPending
    /\ lastResult.cycleType = "read"

\* the bus operations of a completed interrupt entry, the fetch included
EntryBus == last.entry.bus

\* the most recent cycle() completed the NMI entry sequence
NmiEntryDone ==
    /\ last.kind = "execute"
    /\ running = "nmi"
    /\ executionState = "fetch"

\* C20: the fetch that follows a NOP during which nmi() was called starts
\* the NMI entry without advancing p; the entry takes seven cycles, the fetch
\* included: the opcode read and a read at p, the writes of PCH, PCL and the
\* flag byte with B clear and E set at descending stack addresses, the reads
\* of $FFFA and $FFFB; then I is set and p is the vector read.
C20_NmiDuringNop ==
    /\ (WasFetch /\ last.entry.prev = "nop" /\ last.entry.during = "nop") =>
           /\ last.started = "nmi"
           /\ state.p = last.pre.state.p
           /\ lastInstructionPointer = state.p
    /\ NmiEntryDone =>
           /\ Len(EntryBus) = 7
           /\ EntryBus[1].kind = "read"
           /\ EntryBus[1].address = lastInstructionPointer
           /\ EntryBus[2] = EntryBus[1]
           /\ EntryBus[3] = [kind |-> "write",
                             address |-> 256 + ((last.pre.state.s + 3) % 256),
                             value |-> lastInstructionPointer \div 256]
           /\ EntryBus[4] = [kind |-> "write",
                             address |-> 256 + ((last.pre.state.s + 2) % 256),
                             value |-> lastInstructionPointer % 256]
           /\ EntryBus[5].kind = "write"
           /\ EntryBus[5].address = 256 + ((last.pre.state.s + 1) % 256)
           /\ ~HasBit(EntryBus[5].value, FlagB)
           /\ HasBit(EntryBus[5].value, FlagE)
           /\ SetBit(EntryBus[5].value, FlagI) = ClearBit(state.flags, FlagB)
           /\ EntryBus[6] = [kind |-> "read", address |-> 65530, value |-> 0]
           /\ EntryBus[7] = [kind |-> "read", address |-> 65531, value |-> 0]
           /\ HasBit(state.flags, FlagI)
           /\ state.p = last.pre.operand + 256 * last.opcode
           /\ ~state.nmi

\* C20 witness: the NMI entry completed that was started by the fetch after
\* a NOP during which nmi() was called
C20_Witness ==
    /\ NmiEntryDone
    /\ last.entry.prev = "nop"
    /\ last.entry.during = "nop"
    /\ Len(EntryBus) = 7
    /\ state.p = 65535

\* the number of nextStep calls of the most recent cycle()
NextStepCalls ==
    Cardinality({i \in DOMAIN last.events : last.events[i] = "nextStep"})

\* the CPU state the nextStep call of the most recent cycle() was made in
StateAtNextStep ==
    IF last.pre.lastResult.pollInterrupts
    THEN PollInterrupts(last.pre.state, last.pre.nmiPending,
                        last.pre.interruptPending).state
    ELSE last.pre.state

\* C29: a cycle() that runs in phase boot or execute calls nextStep of the
\* current Result once, with the byte read or the byte written; what it
\* returns is the new current Result, which differs from the Result it was
\* called on, and the phase is fetch afterwards exactly when it returned
\* null; a fetch and a frozen cycle() do not call nextStep.
C29_NextStepOnce ==
    /\ last.kind = "execute" =>
           /\ NextStepCalls = 1
           /\ last.events[Len(last.events)] = "nextStep"
           /\ last.bus[1].kind = "write" =>
                  last.opcode = last.pre.lastResult.value
           /\ lastResult =
                  NextStep([last.pre.lastResult EXCEPT
                                !.pollInterrupts = FALSE],
                           last.opcode, StateAtNextStep,
                           last.pre.operand).result
           /\ state =
                  NextStep([last.pre.lastResult EXCEPT
                                !.pollInterrupts = FALSE],
                           last.opcode, StateAtNextStep,
                           last.pre.operand).state
           /\ lastResult # last.pre.lastResult
           /\ (executionState = "fetch") = (lastResult = NoResult)
           /\ lastResult # NoResult =>
                  executionState = last.pre.executionState
    /\ last.kind \in {"fetch", "frozen"} => NextStepCalls = 0

\* C29 witness: the write of an STA, nextStep returned null, phase fetch
C29_Witness ==
    /\ last.kind = "execute"
    /\ last.pre.lastResult.machine = "sta"
    /\ last.bus[1].kind = "write"
    /\ last.opcode = 255
    /\ lastResult = NoResult
    /\ executionState = "fetch"

\* C30 as claimed: a driver that was reset() behaves like a freshly
\* constructed one. In a fresh driver the first fetch after the boot
\* sequence does not run the poll step, so it dispatches the opcode it reads
\* even when nmi() was called during boot; the same is claimed after any
\* reset().
C30_Original ==
    (WasFetch /\ last.prev = "boot") =>
        /\ ~Polled
        /\ last.started \in {"op", "invalid"}

\* the step is made by a call that only sets or clears the halt flag
HaltFlagOnlyNext ==
    /\ last'.kind = "none"
    /\ last'.bus = <<>>
    /\ UNCHANGED <<state, executionState, lastResult, operand,
                   interruptPending, nmiPending,
                   pollInterruptsAfterLastInstruction,
                   lastInstructionPointer, invalidInstructionCallback>>

\* the step is a cycle() that is frozen: the CPU is halted, nothing the
\* driver owns changes and the bus is not touched
FrozenNext ==
    /\ halt
    /\ last'.bus = <<>>
    /\ UNCHANGED driverVars

\* the step is a cycle() that runs: registers, latches, requests,
\* carry-over, phase, current Result and bus operation are the functions of
\* the other fields that _fetch and the step of the current Result compute
RunsNext ==
    /\ last'.kind = "fetch" =>
           LET pr == PollAtFetch(pollInterruptsAfterLastInstruction, state,
                                 nmiPending, interruptPending)
               sel == FetchSelect(pr.state)
           IN  /\ last'.bus = <<BusRead(state.p)>>
               /\ state' = FetchAdvance(sel, pr.state)
               /\ nmiPending' = pr.nmiPending
               /\ pollInterruptsAfterLastInstruction' = FetchCarry(sel)
               /\ executionState' \in {"fetch", "execute"}
               /\ executionState' = "execute" =>
                      lastResult' = MachineReset(running', state')
    /\ last'.kind = "execute" =>
           LET pr == PollAtResult(lastResult, state, nmiPending,
                                  interruptPending)
               nx == NextStep([lastResult EXCEPT !.pollInterrupts = FALSE],
                              last'.opcode, pr.state, operand)
           IN  /\ last'.bus = <<ExecuteBusOp(lastResult)>>
               /\ state' = nx.state
               /\ operand' = nx.operand
               /\ lastResult' = nx.result
               /\ nmiPending' = pr.nmiPending

\* the step is a cycle() that runs and leaves the halt flag as it was
RunsAsUnhaltedNext ==
    /\ halt' = halt
    /\ RunsNext

\* C21: halt() followed later by resume() is transparent. Every step of a
\* run is of one of three kinds: a call that changes the halt flag and
\* nothing else the driver owns (halt, resume) or a reset(); a frozen
\* cycle(), which happens only while halted and changes nothing and touches
\* no bus; or a cycle() that runs, whose bus operation and whose effect on
\* every other field do not depend on the halt flag. So the run with the halt
\* is the run without it plus steps that change nothing. isHalt() is true
\* exactly when halt() was called and neither resume() nor reset() since.
C21_HaltTransparent ==
    [][/\ halt' = haltReq'
       /\ halt' # halt => (last'.kind = "reset" \/ HaltFlagOnlyNext)
       /\ last'.kind = "frozen" => FrozenNext
       /\ last'.kind \in {"fetch", "execute"} => RunsAsUnhaltedNext]_vars

\* halt() was called in the middle of a STA and a cycle() was frozen on the
\* read that the STA has pending
C21_Witness ==
    /\ last.kind = "frozen"
    /\ haltReq
    /\ executionState = "execute"
    /\ lastResult.machine = "sta"
    /\ lastResult.cycleType = "read"

\* ------------------------------------------------------------------------
\* Instruction runs: the driver on a bus backed by a memory, started in
\* phase fetch at the first byte of a short program
\* ------------------------------------------------------------------------

\* the byte in every memory cell a program does not set
FillByte == OpInvalid

\* the memory cells that hold bytes from address addr on, wrapping at $FFFF
Code(addr, bytes) ==
    [a \in {(addr + i - 1) % 65536 : i \in 1..Len(bytes)} |->
        bytes[((a + 65536 - addr) % 65536) + 1]]

\* bus.read(a) and bus.write(a, v) of a bus that is a memory
MemRead(m, a) == IF a \in DOMAIN m THEN m[a] ELSE FillByte

MemWrite(m, a, v) == (a :> v) @@ m

\* a CPU state between two instructions, no interrupt latched
CpuState(p, a, x, y, s, f) ==
    [a |-> a, x |-> x, y |-> y, s |-> s, p |-> p, flags |-> f,
     irq |-> FALSE, nmi |-> FALSE]

Program(st, m) == [state |-> st, mem |-> m]

\* the opcode of machine m, and the opcodes of the machines in set ms
OpcodeOf(m) == IF m = "plp" THEN OpPLP
               ELSE CHOOSE o \in DOMAIN MoreOperations : MoreOperations[o] = m

OpcodesOf(ms) == {OpcodeOf(m) : m \in ms}

\* a branch at p with offset off under flag byte f: offsets 0, +5, +127,
\* -128, -5, -1; p at $1000, before a page end and before $FFFF; the flags
\* all clear or all set (but B)
BranchPrograms ==
    {Program(CpuState(p, 0, 0, 0, 253, f), Code(p, <<op, off>>)) :
        op \in OpcodesOf(Branches), off \in {0, 5, 127, 128, 251, 255},
        p \in {4096, 4347, 4350, 65533, 65534}, f \in {32, 239}}

\* JMP (ptr) at p; the target's low byte at ptr, its high byte at the
\* wrapped address, and another byte in the cell after ptr
JmpProgram(p, ptr, lo, hi) ==
    Program(CpuState(p, 0, 0, 0, 253, 32),
            Code(p, <<OpcodeOf("jmpInd"), ptr % 256, ptr \div 256>>) @@
            (ptr :> lo) @@ (TargetHigh(ptr) :> hi) @@
            ((ptr + 1) % 65536 :> 86))

\* JMP at $1000 and $4000 through $10FF, $02FF, $0300 and $FFFF
JmpPrograms ==
    {JmpProgram(p, ptr, lo, hi) :
        p \in {4096, 16384}, ptr \in {4351, 767, 768, 65535},
        lo \in {52, 0}, hi \in {18, 255}}

\* an RMW instruction on zero-page cell zp holding v, or on the accumulator
RmwBytes == {0, 1, 127, 128, 255}

RmwPrograms ==
    {Program(CpuState(p, a, 0, 0, 253, f), Code(p, <<op, zp>>) @@ (zp :> v)) :
        op \in OpcodesOf(RmwMemory), zp \in {16, 255}, v \in RmwBytes,
        a \in {0, 128}, p \in {4096, 65535}, f \in {32, 33}}
    \cup
    {Program(CpuState(p, a, 0, 0, 253, f), Code(p, <<op>>)) :
        op \in OpcodesOf(RmwAccumulator), a \in RmwBytes,
        p \in {4096, 65535}, f \in {32, 33}}

\* an indexed LDA or STA at $2000, X = xy[1] and Y = xy[2], the byte v at
\* the effective address; (indirect),Y takes base from the pointer at zp
IndexedProgram(op, base, xy, zp, v) ==
    LET m == MoreOperations[op]
        index == IF m \in {"ldaAbsX", "staAbsX"} THEN xy[1] ELSE xy[2]
        eff == (base + index) % 65536
        code == IF m \in {"ldaIndY", "staIndY"}
                THEN Code(8192, <<op, zp>>) @@ (zp :> base % 256) @@
                     ((zp + 1) % 256 :> base \div 256)
                ELSE Code(8192, <<op, base % 256, base \div 256>>)
    IN  Program(CpuState(8192, 85, xy[1], xy[2], 253, 32),
                code @@ (eff :> v))

\* bases $10F0, $10FF and $FFF0 with indices 00, 0F, 10 and FF
IndexedPrograms ==
    {IndexedProgram(op, base, xy, zp, v) :
        op \in OpcodesOf(IndexedLoads \cup IndexedStores),
        base \in {4336, 4351, 65520},
        xy \in {<<0, 16>>, <<15, 255>>, <<16, 0>>, <<255, 15>>},
        zp \in {64, 255}, v \in {0, 128}}

\* stack pointers at both ends of the stack page and next to them
StackPointers == {0, 1, 253, 255}

\* PHP ; PLP at $1000 under every flag byte that has E set
StackPrograms ==
    {Program(CpuState(4096, 0, 0, 0, s, f),
             Code(4096, <<OpcodeOf("php"), OpcodeOf("plp")>>)) :
        s \in StackPointers, f \in {b \in 0..255 : HasBit(b, FlagE)}}

\* JSR t at p with RTS at t: p at $1000, before a page end and before
\* $FFFF, t at $2000 and $00FF
CallPrograms ==
    {Program(CpuState(p, 0, 0, 0, s, 32),
             Code(p, <<OpcodeOf("jsr"), t % 256, t \div 256>>) @@
             (t :> OpcodeOf("rts"))) :
        p \in {4096, 4349, 4350, 65533, 65534}, t \in {8192, 255},
        s \in StackPointers}

Programs ==
    BranchPrograms \cup JmpPrograms \cup RmwPrograms \cup IndexedPrograms
    \cup StackPrograms \cup CallPrograms

InitInstr ==
    /\ fm = <<>>
    /\ pf = <<>>
    /\ initial \in Programs
    /\ state = initial.state
    /\ mem = initial.mem
    /\ busLog = <<>>
    /\ executionState = "fetch"
    /\ lastResult = NoResult
    /\ operand = 0
    /\ interruptPending = FALSE
    /\ nmiPending = FALSE
    /\ halt = FALSE
    /\ pollInterruptsAfterLastInstruction = FALSE
    /\ lastInstructionPointer = 0
    /\ invalidInstructionCallback = FALSE
    /\ rng = "none"
    /\ last = NoCall
    /\ running = "nop"
    /\ polledInInstr = FALSE
    /\ lastPoll = NoPoll
    /\ pulse = "none"
    /\ nmiReq = FALSE
    /\ nFetch = 0
    /\ nCycle = BootCycles + 1
    /\ nmiDuring = "none"
    /\ entry = NoEntry
    /\ fetchP = 0
    /\ haltReq = FALSE
    /\ runner = NoRunner

\* one bus operation as the memory saw it; sync marks an opcode fetch
BusEntry(kind, addr, byte, sync) ==
    [kind |-> kind, address |-> addr, value |-> byte, sync |-> sync]

\* cycle() with the bus reads answered from mem and the writes stored in it
CycleOnMemory ==
    /\ ~FrozenByHalt(halt, lastResult)
    /\ UNCHANGED <<halt, haltReq>>
    /\ IF executionState = "fetch"
       THEN /\ nFetch < MaxFetch
            /\ Fetch(MemRead(mem, state.p))
            /\ mem' = mem
            /\ busLog' = Append(busLog,
                                BusEntry("read", state.p,
                                         MemRead(mem, state.p), TRUE))
       ELSE LET res == lastResult
                byte == IF res.cycleType = "write" THEN res.value
                        ELSE MemRead(mem, res.address)
            IN  /\ res # NoResult
                /\ Execute(byte)
                /\ mem' = IF res.cycleType = "write"
                          THEN MemWrite(mem, res.address, res.value)
                          ELSE mem
                /\ busLog' = Append(busLog,
                                    BusEntry(res.cycleType, res.address,
                                             byte, FALSE))

NextInstr == CycleOnMemory

SpecInstr == InitInstr /\ [][NextInstr]_vars

\* the instructions are run from states the CPU can be in between two
\* instructions, and registers and bus operations stay within their widths
InstrTypeOK ==
    /\ state.a \in 0..255 /\ state.x \in 0..255 /\ state.y \in 0..255
    /\ state.s \in 0..255 /\ state.p \in 0..65535
    /\ state.flags \in 0..255
    /\ \A i \in DOMAIN busLog :
           busLog[i].address \in 0..65535 /\ busLog[i].value \in 0..255

\* ------------------------------------------------------------------------
\* Properties of the instruction runs (specification SpecInstr)
\* ------------------------------------------------------------------------

\* the byte at address a when the run started
InitialByte(a) == MemRead(initial.mem, a % 65536)

\* the instruction the run starts with
FirstMachine == Operations(InitialByte(initial.state.p))

\* the first instruction of the run has just completed
FirstDone == nFetch = 1 /\ executionState = "fetch"

\* the second instruction of the run has just completed
SecondDone == nFetch = 2 /\ executionState = "fetch"

\* the kinds of the bus operations of the run so far, in order
BusKinds == [i \in DOMAIN busLog |-> busLog[i].kind]

\* the branch the run starts with is taken to another page
BranchCrossed ==
    /\ FirstMachine \in Branches
    /\ FirstDone
    /\ BranchTaken(FirstMachine, initial.state.flags)
    /\ state.p \div 256 # ((initial.state.p + 2) % 65536) \div 256

\* C22: counting its opcode fetch, a branch takes 2 bus cycles when not
\* taken, 3 when taken within the page of the next instruction and 4 when
\* taken across a page; all of them are reads: opcode, offset, then the
\* dummy read at the p before the add, then the read at the target's low
\* byte under the old high byte; p ends at the target, or at the next
\* instruction when the branch is not taken.
C22_BranchCycles ==
    (FirstMachine \in Branches /\ FirstDone) =>
        LET p0 == initial.state.p
            off == InitialByte(p0 + 1)
            next == (p0 + 2) % 65536
            disp == IF off < 128 THEN off ELSE off - 256
            target == (next + disp + 65536) % 65536
            taken == BranchTaken(FirstMachine, initial.state.flags)
            crossed == next \div 256 # target \div 256
        IN  /\ Len(busLog) =
                   IF ~taken THEN 2 ELSE IF ~crossed THEN 3 ELSE 4
            /\ \A i \in DOMAIN busLog : busLog[i].kind = "read"
            /\ busLog[1].address = p0
            /\ busLog[2].address = (p0 + 1) % 65536
            /\ taken => busLog[3].address = next
            /\ (taken /\ crossed) =>
                   busLog[4].address = (next \div 256) * 256 + (target % 256)
            /\ state.p = IF taken THEN target ELSE next

\* a backward branch across a page boundary has completed in four cycles
C22_Witness ==
    /\ BranchCrossed
    /\ Len(busLog) = 4
    /\ InitialByte(initial.state.p + 1) = 251
    /\ busLog[4].address # state.p

C24_RmwWritesTwice ==
    FirstDone =>
        /\ FirstMachine \in RmwMemory =>
               LET zp == InitialByte(initial.state.p + 1)
                   v == InitialByte(zp)
                   n == RmwValue(FirstMachine, v, initial.state.flags)
               IN  /\ BusKinds = <<"read", "read", "read", "write", "write">>
                   /\ busLog[3].address = zp /\ busLog[3].value = v
                   /\ busLog[4].address = zp /\ busLog[4].value = v
                   /\ busLog[5].address = zp /\ busLog[5].value = n
                   /\ MemRead(mem, zp) = n
        /\ FirstMachine \in RmwAccumulator =>
               /\ BusKinds = <<"read", "read">>
               /\ mem = initial.mem
               /\ state.a = RmwValue(RmwOf(FirstMachine), initial.state.a,
                                     initial.state.flags)

\* the undocumented DCP has written the old byte and then a different one
C24_Witness ==
    /\ FirstDone
    /\ FirstMachine = "dcp"
    /\ Len(busLog) = 5
    /\ busLog[4].kind = "write"
    /\ busLog[4].value = 0
    /\ busLog[5].value = 255

\* the base address and the index of the indexed access the run starts with
IndexedBase ==
    IF FirstMachine \in {"ldaIndY", "staIndY"}
    THEN LET zp == InitialByte(initial.state.p + 1)
         IN  InitialByte(zp) + 256 * InitialByte((zp + 1) % 256)
    ELSE InitialByte(initial.state.p + 1)
         + 256 * InitialByte(initial.state.p + 2)

IndexedIndex ==
    IF FirstMachine \in {"ldaAbsX", "staAbsX"}
    THEN initial.state.x ELSE initial.state.y

\* C25: with base and eff = base + index, an indexed load reads
\* (base & 0xFF00) | (eff & 0xFF) before its final read exactly when base and
\* eff lie in different pages; an indexed store always makes that read before
\* its write, so it takes the same number of cycles with and without a page
\* crossing. The final access is at eff.
C25_IndexedDummyRead ==
    (FirstDone /\ FirstMachine \in IndexedLoads \cup IndexedStores) =>
        LET base == IndexedBase
            eff == (base + IndexedIndex) % 65536
            crossed == base \div 256 # eff \div 256
            store == FirstMachine \in IndexedStores
            k == IF FirstMachine \in {"ldaIndY", "staIndY"} THEN 4 ELSE 3
            n == Len(busLog)
        IN  /\ n = IF store \/ crossed THEN k + 2 ELSE k + 1
            /\ \A i \in 1..(n - 1) : busLog[i].kind = "read"
            /\ n = k + 2 =>
                   busLog[k + 1].address = (base \div 256) * 256 + (eff % 256)
            /\ busLog[n].address = eff
            /\ busLog[n].kind = IF store THEN "write" ELSE "read"
            /\ store => busLog[n].value = initial.state.a
            /\ ~store => state.a = busLog[n].value

\* a store that crosses no page has made the dummy read at the address it
\* then wrote to
C25_Witness ==
    /\ FirstDone
    /\ FirstMachine = "staAbsY"
    /\ Len(busLog) = 5
    /\ busLog[4].kind = "read"
    /\ busLog[5].kind = "write"
    /\ busLog[4].address = busLog[5].address
    /\ initial.state.y > 0

\* the flag bits other than E and B
PlainFlags == {FlagC, FlagZ, FlagI, 8, FlagV, FlagN}

\* C26: PHP immediately followed by PLP leaves S as it was and every flag
\* bit other than E and B as it was before the PHP, with E set and B clear,
\* for every flag byte and every S, S = 0x00 included; the byte PHP writes to
\* $0100 | S has B and E set and the other bits as in the flag byte.
C26_PhpPlpRestores ==
    (FirstMachine = "php" /\ SecondDone) =>
        LET f0 == initial.state.flags
            s0 == initial.state.s
        IN  /\ state.s = s0
            /\ \A b \in PlainFlags : HasBit(state.flags, b) = HasBit(f0, b)
            /\ HasBit(state.flags, FlagE)
            /\ ~HasBit(state.flags, FlagB)
            /\ busLog[3].kind = "write"
            /\ busLog[3].address = StackBase + s0
            /\ HasBit(busLog[3].value, FlagB)
            /\ HasBit(busLog[3].value, FlagE)
            /\ \A b \in PlainFlags :
                   HasBit(busLog[3].value, b) = HasBit(f0, b)
            /\ busLog[7].kind = "read"
            /\ busLog[7].address = busLog[3].address
            /\ Len(busLog) = 7

\* PHP ; PLP has run with S = 0x00 from a flag byte without B: the push
\* went to $0100 and the pull wrapped back to it
C26_Witness ==
    /\ FirstMachine = "php"
    /\ SecondDone
    /\ initial.state.s = 0
    /\ initial.state.flags = 235
    /\ state.flags = 235
    /\ busLog[3].address = 256
    /\ busLog[3].value = 251
    /\ busLog[6].address = 511

\* C27: JSR followed at once by RTS leaves p at the instruction after the
\* three bytes of the JSR and S as it was, for every JSR address and S; JSR
\* pushes the address of its own last byte, high byte first.
C27_JsrRtsReturns ==
    (FirstMachine = "jsr" /\ SecondDone) =>
        LET p0 == initial.state.p
            s0 == initial.state.s
            lastByte == (p0 + 2) % 65536
        IN  /\ state.p = (p0 + 3) % 65536
            /\ state.s = s0
            /\ busLog[4].kind = "write"
            /\ busLog[4].address = StackBase + s0
            /\ busLog[4].value = lastByte \div 256
            /\ busLog[5].kind = "write"
            /\ busLog[5].address = StackBase + ((s0 + 255) % 256)
            /\ busLog[5].value = lastByte % 256
            /\ busLog[7].sync
            /\ busLog[7].value = OpcodeOf("rts")
            /\ Len(busLog) = 12

\* a JSR whose last byte is at $0000 has returned to $0001 with the two
\* pushes wrapping from $0100 to $01FF
C27_Witness ==
    /\ FirstMachine = "jsr"
    /\ SecondDone
    /\ initial.state.p = 65534
    /\ initial.state.s = 0
    /\ state.p = 1
    /\ busLog[4].address = 256
    /\ busLog[5].address = 511

\* ------------------------------------------------------------------------
\* The test Runner (tests/ts/machine/cpu/statemachine/Runner.ts): the state
\* a test expects after each cycle is the action of the cycle applied to the
\* state before it
\* ------------------------------------------------------------------------

\* incrementP, decrementS and incrementS, the actions the tests use
IncrementP(st) == [st EXCEPT !.p = (st.p + 1) % 65536]

DecrementS(st) == [st EXCEPT !.s = (st.s + 65535) % 65536]

IncrementS(st) == [st EXCEPT !.s = (st.s + 1) % 65536]

Helpers == {"none", "incrementP", "decrementS", "incrementS"}

\* cycle.action ? cycle.action(this._state) : { ...this._state }
StateExpected(h, st) ==
    CASE h = "incrementP" -> IncrementP(st)
      [] h = "decrementS" -> DecrementS(st)
      [] h = "incrementS" -> IncrementS(st)
      [] OTHER -> st

\* the states a test prepares: any stack pointer, p at either end
PreparedStates ==
    {[s |-> s, p |-> p, step |-> 0, did |-> "none", prev |-> s] :
        s \in 0..255, p \in {0, 65535}}

InitRunner ==
    /\ fm = <<>>
    /\ pf = <<>>
    /\ runner \in PreparedStates
    /\ state = CpuState(runner.p, 0, 0, 0, runner.s, 32)
    /\ initial = [state |-> state, mem |-> NoMem]
    /\ mem = NoMem
    /\ busLog = <<>>
    /\ executionState = "fetch"
    /\ lastResult = NoResult
    /\ operand = 0
    /\ interruptPending = FALSE
    /\ nmiPending = FALSE
    /\ halt = FALSE
    /\ pollInterruptsAfterLastInstruction = FALSE
    /\ lastInstructionPointer = 0
    /\ invalidInstructionCallback = FALSE
    /\ rng = "none"
    /\ last = NoCall
    /\ running = "nop"
    /\ polledInInstr = FALSE
    /\ lastPoll = NoPoll
    /\ pulse = "none"
    /\ nmiReq = FALSE
    /\ nFetch = 0
    /\ nCycle = 0
    /\ nmiDuring = "none"
    /\ entry = NoEntry
    /\ fetchP = 0
    /\ haltReq = FALSE

\* one pass of the loop of Runner.run for a cycle whose action is helper h
\* and whose expectations the state machine meets
RunnerCycle(h) ==
    /\ runner.step < MaxStep
    /\ runner' = [StateExpected(h, runner) EXCEPT
                     !.step = runner.step + 1, !.did = h,
                     !.prev = runner.s]
    /\ UNCHANGED <<state, executionState, lastResult, operand,
                   interruptPending, nmiPending, halt,
                   pollInterruptsAfterLastInstruction,
                   lastInstructionPointer, invalidInstructionCallback, rng,
                   last, running, polledInInstr, lastPoll, pulse, nmiReq,
                   nFetch, nCycle, nmiDuring, entry, fetchP, haltReq, mem,
                   busLog, initial, fm, pf>>

NextRunner == \E h \in Helpers : RunnerCycle(h)

SpecRunner == InitRunner /\ [][NextRunner]_vars

\* C28 as claimed: the stack pointer wraps modulo 256. A push with S = 0x00
\* leaves S = 0xFF, a pull with S = 0xFF leaves S = 0x00, S stays within
\* [0,255] and every stack address $0100 + S within $0100..$01FF. Stated of
\* the stack pointer the tests expect after a push (decrementS) and after a
\* pull (incrementS).
C28_Original ==
    /\ runner.s \in 0..255
    /\ StackBase + runner.s \in 256..511
    /\ (runner.did = "decrementS" /\ runner.prev = 0) => runner.s = 255
    /\ (runner.did = "incrementS" /\ runner.prev = 255) => runner.s = 0

\* C31: in every reachable state the phase is fetch exactly when the driver
\* has no current Result, and in phases boot and execute the current Result
\* is a read or a write; hence a cycle() entered halted in phase fetch is
\* frozen and performs no bus access.
C31_PhaseAndResult ==
    /\ (executionState = "fetch") = (lastResult = NoResult)
    /\ executionState \in {"boot", "execute"} =>
           lastResult.cycleType \in {"read", "write"}
    /\ (WasCycle /\ last.pre.halt /\ last.pre.executionState = "fetch") =>
           /\ last.kind = "frozen"
           /\ last.bus = <<>>

\* a cycle() was frozen in the phase fetch that an invalid opcode left
C31_Witness ==
    /\ last.kind = "frozen"
    /\ last.pre.executionState = "fetch"
    /\ running \in {"invalid", "invalidCb"}
    /\ lastResult = NoResult
    /\ last.bus = <<>>

\* state.irq and state.nmi are not both set, and a cycle() that ran the poll
\* step leaves no NMI request pending
LatchesExclusive ==
    /\ ~(state.irq /\ state.nmi)
    /\ (WasCycle /\ Polled) => ~nmiPending

\* C32: state.irq and state.nmi are never both true and every poll step
\* leaves the NMI request cleared; the request is a single flag that only a
\* call outside cycle() raises, and state.nmi rises only in a poll step
\* that finds the request and clears it, so the nmi() calls made between two
\* poll steps promote to one state.nmi.
C32_SingleNmi ==
    [][/\ LatchesExclusive'
       /\ nmiPending' \in BOOLEAN
       /\ (nmiPending' /\ ~nmiPending) =>
              (OtherCallNext /\ RequestFrameNext)
       /\ (state'.nmi /\ ~state.nmi) =>
              (PolledNext /\ nmiPending /\ ~nmiPending')
       /\ (PolledNext /\ nmiPending) => (state'.nmi /\ ~state'.irq)]_vars

\* a poll step inside PLP promoted an NMI request while the IRQ line was
\* asserted with I clear: only state.nmi is set
C32_Witness ==
    /\ last.kind = "execute"
    /\ Polled
    /\ last.pre.lastResult.machine = "plp"
    /\ last.pre.nmiPending
    /\ last.pre.interruptPending
    /\ ~HasBit(last.pre.state.flags, FlagI)
    /\ state.nmi
    /\ ~state.irq
    /\ ~nmiPending

\* C33: when the invalid-instruction callback runs, the last instruction
\* pointer is the address the invalid opcode was read from and p is that
\* address plus one modulo 2^16; the fetch that follows an invalid opcode
\* runs the poll step, so that an NMI request pending then is promoted and
\* its entry started by that fetch.
C33_CallbackSeesAdvancedP ==
    /\ (WasFetch /\ last.cbCalls = 1) =>
           /\ last.events[Len(last.events)] = "callback"
           /\ lastInstructionPointer = last.bus[1].address
           /\ state.p = (last.bus[1].address + 1) % 65536
    /\ (WasFetch /\ last.prev \in {"invalid", "invalidCb"}) =>
           /\ Polled
           /\ last.pre.nmiPending => (last.started = "nmi" /\ ~nmiPending)

\* the callback ran for a second invalid opcode in a row, read from $0000
\* by a fetch that polled
C33_Witness ==
    /\ WasFetch
    /\ last.cbCalls = 1
    /\ last.prev = "invalidCb"
    /\ Polled
    /\ lastInstructionPointer = 0
    /\ state.p = 1

\* cycle() during which the bus collaborator or the invalid-instruction
\* callback calls halt(): the flag is read at the top of cycle() only, so the
\* cycle runs to its end with the flag set
CycleHalting ==
    /\ ~FrozenByHalt(halt, lastResult)
    /\ RunCycle
    /\ halt' = TRUE
    /\ haltReq' = TRUE
    /\ UNCHANGED <<mem, busLog>>

NextReentrant ==
    \/ CycleHalting
    \/ Cycle
    \/ Resume
    \/ SetInvalidInstructionCallback

SpecReentrant == Init /\ [][NextReentrant]_vars

\* C34: halt() called from the bus or from the invalid-instruction callback
\* inside a cycle(). That cycle runs to its end as it would have without the
\* call: its bus operation, the one nextStep call and the new current Result
\* are the same, only the halt flag is set. While the flag is set no cycle()
\* reads the bus, and a frozen cycle() changes nothing. resume() changes the
\* halt flag only, so the cycle() after it runs the step that was pending
\* when the CPU froze.
C34_ReentrantHalt ==
    [][/\ halt' = haltReq'
       /\ last'.kind \in {"fetch", "execute"} =>
              /\ RunsNext
              /\ halt' \in {halt, TRUE}
              /\ Len(last'.bus) = 1
       /\ (halt /\ last'.kind \in {"frozen", "fetch", "execute", "throw"}) =>
              \A i \in 1..Len(last'.bus) : last'.bus[i].kind # "read"
       /\ last'.kind = "frozen" => FrozenNext
       /\ (halt /\ ~halt') => HaltFlagOnlyNext]_vars

\* C34 witness: halt() was called from the bus during the write of an STA;
\* the write was made and the STA is over
C34_Witness ==
    /\ last.kind = "execute"
    /\ ~last.pre.halt
    /\ halt
    /\ last.pre.lastResult.machine = "sta"
    /\ last.bus[1].kind = "write"
    /\ lastResult = NoResult

VblankLines == 3
KernelLines == 2
OverscanLines == 3
VisibleOverscan == 2
MaxUnderscan == 1
MaxFramesWithoutVsync == 1

\* Metrics.vsync
MetricsVsync == 3

\* _maxLinesWithoutVsync as the constructor computes it from _frameLines
MaxLinesWithoutVsync ==
    (VblankLines + KernelLines + OverscanLines * MetricsVsync)
        * MaxFramesWithoutVsync

\* the fields after reset(); surfaceFactory and surface are TRUE for a
\* factory and a surface, FALSE for null. undispatched counts the frames
\* started whose newFrame was not dispatched yet, thrown records the error
\* of _finalizeFrame
FreshFrameManager ==
    [vblank |-> FALSE, waitForVsync |-> TRUE, linesWithoutVsync |-> 0,
     state |-> "waitForVsyncStart", vsync |-> FALSE, lineInState |-> 0,
     surfaceFactory |-> FALSE, surface |-> FALSE,
     undispatched |-> 0, thrown |-> FALSE]

\* mutant: _setState keeps the line count of the state that is left
SetState_KeepLine(f, newState) == [f EXCEPT !.state = newState]

\* _setState(newState)
SetState(f, newState) == [f EXCEPT !.state = newState, !.lineInState = 0]

\* _startFrame()
StartFrame(f) ==
    [SetState(f, "frame") EXCEPT !.surface = TRUE,
                                 !.undispatched = f.undispatched + 1]

\* mutant: _finalizeFrame leaves the frame without dispatching newFrame
FinalizeFrame_NoDispatch(f) ==
    IF f.state # "frame" THEN [f EXCEPT !.thrown = TRUE]
    ELSE SetState(f, "overscan")

\* _finalizeFrame()
FinalizeFrame(f) ==
    IF f.state # "frame" THEN [f EXCEPT !.thrown = TRUE]
    ELSE [SetState(f, "overscan") EXCEPT
              !.undispatched = f.undispatched - 1]

\* mutant: the lines without vsync are never counted
CountLine_Never(f) == f

\* the end of nextLine(): a line without vsync is counted while waiting
CountLine(f) ==
    IF f.waitForVsync
    THEN [f EXCEPT !.linesWithoutVsync = f.linesWithoutVsync + 1]
    ELSE f

\* reset()
FrameManagerReset == fm' = FreshFrameManager

\* setSurfaceFactory(factory), factory a function or null
SetSurfaceFactory ==
    \E factory \in BOOLEAN : fm' = [fm EXCEPT !.surfaceFactory = factory]

\* nextLine(); the line count of a manager that gave up on vsync and sees
\* vblank held grows without end: the calls that would only count stop once
\* the count is past every threshold
NextLine ==
    /\ \/ fm.lineInState <= MaxLinesWithoutVsync + 2
       \/ fm.state = "waitForFrameStart" /\ ~fm.vblank
    /\ IF ~fm.surfaceFactory
       THEN fm' = fm
       ELSE LET f == [fm EXCEPT !.lineInState = fm.lineInState + 1]
                g == CASE f.state \in {"waitForVsyncStart",
                                       "waitForVsyncEnd"} ->
                              IF f.linesWithoutVsync > MaxLinesWithoutVsync
                              THEN SetState([f EXCEPT !.waitForVsync = FALSE],
                                            "waitForFrameStart")
                              ELSE f
                       [] f.state = "waitForFrameStart" ->
                              IF f.waitForVsync
                              THEN IF f.lineInState >=
                                          (IF f.vblank THEN VblankLines
                                           ELSE VblankLines - MaxUnderscan)
                                   THEN StartFrame(f) ELSE f
                              ELSE IF ~f.vblank THEN StartFrame(f) ELSE f
                       [] f.state = "frame" ->
                              IF f.lineInState >=
                                     KernelLines + VisibleOverscan
                              THEN FinalizeFrame(f) ELSE f
                       [] f.state = "overscan" ->
                              IF f.lineInState >=
                                     OverscanLines - VisibleOverscan
                              THEN SetState(f, IF f.waitForVsync
                                               THEN "waitForVsyncStart"
                                               ELSE "waitForFrameStart")
                              ELSE f
            IN  fm' = CountLine(g)

\* setVblank(vblank)
SetVblank ==
    \E vblank \in BOOLEAN :
        fm' = IF fm.surfaceFactory THEN [fm EXCEPT !.vblank = vblank] ELSE fm

\* setVsync(vsync)
SetVsync ==
    \E vsync \in BOOLEAN :
        IF ~fm.surfaceFactory \/ ~fm.waitForVsync \/ vsync = fm.vsync
        THEN fm' = fm
        ELSE LET f == [fm EXCEPT !.vsync = vsync]
             IN  fm' =
                 CASE f.state \in {"waitForVsyncStart", "waitForFrameStart",
                                   "overscan"} ->
                          IF vsync THEN SetState(f, "waitForVsyncEnd") ELSE f
                   [] f.state = "waitForVsyncEnd" ->
                          IF ~vsync
                          THEN [SetState(f, "waitForFrameStart") EXCEPT
                                    !.linesWithoutVsync = 0]
                          ELSE f
                   [] f.state = "frame" ->
                          IF vsync THEN FinalizeFrame(f) ELSE f

\* a FrameManager after its constructor; no CPU is driven
InitFrame ==
    /\ fm = FreshFrameManager
    /\ pf = <<>>
    /\ runner = NoRunner
    /\ state = CpuState(0, 0, 0, 0, 0, 32)
    /\ initial = [state |-> state, mem |-> NoMem]
    /\ mem = NoMem
    /\ busLog = <<>>
    /\ executionState = "fetch"
    /\ lastResult = NoResult
    /\ operand = 0
    /\ interruptPending = FALSE
    /\ nmiPending = FALSE
    /\ halt = FALSE
    /\ pollInterruptsAfterLastInstruction = FALSE
    /\ lastInstructionPointer = 0
    /\ invalidInstructionCallback = FALSE
    /\ rng = "none"
    /\ last = NoCall
    /\ running = "nop"
    /\ polledInInstr = FALSE
    /\ lastPoll = NoPoll
    /\ pulse = "none"
    /\ nmiReq = FALSE
    /\ nFetch = 0
    /\ nCycle = 0
    /\ nmiDuring = "none"
    /\ entry = NoEntry
    /\ fetchP = 0
    /\ haltReq = FALSE

NextFrame ==
    /\ UNCHANGED <<state, executionState, lastResult, operand,
                   interruptPending, nmiPending, halt,
                   pollInterruptsAfterLastInstruction,
                   lastInstructionPointer, invalidInstructionCallback, rng,
                   last, running, polledInInstr, lastPoll, pulse, nmiReq,
                   nFetch, nCycle, nmiDuring, entry, fetchP, haltReq, mem,
                   busLog, runner, initial, pf>>
    /\ \/ FrameManagerReset
       \/ SetSurfaceFactory
       \/ NextLine
       \/ SetVblank
       \/ SetVsync

SpecFrame == InitFrame /\ [][NextFrame]_vars

\* nextLine() keeps being called: the TIA calls it at the end of every
\* scanline it draws
SpecFrameLive == SpecFrame /\ WF_vars(NextLine /\ NextFrame)

\* isRendering()
IsRendering == fm.state = "frame"

\* getHeight()
GetHeight == KernelLines + VisibleOverscan

\* getCurrentLine()
GetCurrentLine == IF fm.state = "frame" THEN fm.lineInState ELSE 0

\* C36: whatever nextLine(), setVsync() and setVblank() calls are made, the
\* error of _finalizeFrame is never raised, and frame starts and newFrame
\* dispatches alternate: exactly one started frame is not dispatched yet
\* while the state is frame and none in any other state, so newFrame is
\* dispatched once between two frame starts. Without a surface factory
\* nothing changes except through setSurfaceFactory(), which changes the
\* factory only, and reset().
C36_FramesDispatchedOnce ==
    [][/\ ~fm'.thrown
       /\ fm'.undispatched = (IF fm'.state = "frame" THEN 1 ELSE 0)
       /\ ~fm.surfaceFactory =>
              \/ fm' = [fm EXCEPT !.surfaceFactory = TRUE]
              \/ fm' = FreshFrameManager]_vars

\* C36 witness: a frame was started and ended by setVsync(true); its newFrame
\* was dispatched and the manager is in overscan
C36_Witness ==
    /\ fm.surfaceFactory
    /\ fm.surface
    /\ fm.state = "overscan"
    /\ fm.vsync
    /\ fm.lineInState = 0
    /\ fm.undispatched = 0

\* C37: with a surface factory installed and vblank false from some point
\* on, and vsync changing no more from some point on (never set, or held at
\* one level), nextLine() being called again and again starts a frame and
\* dispatches newFrame (the state overscan is entered by _finalizeFrame
\* only), again and again. _waitForVsync, once false, becomes true by
\* reset() only.
C37_FrameEventually ==
    /\ (/\ <>[](fm.surfaceFactory /\ ~fm.vblank)
        /\ <>[][fm'.vsync = fm.vsync]_fm)
           => /\ []<>(fm.state = "frame")
              /\ []<>(fm.state = "overscan" /\ fm.undispatched = 0)
    /\ [][(~fm.waitForVsync /\ fm'.waitForVsync) =>
              fm' = FreshFrameManager]_vars

\* C37 witness: setVsync() was never effective, the manager gave up waiting
\* after MaxLinesWithoutVsync lines, started a frame and dispatched it
C37_Witness ==
    /\ fm.surfaceFactory
    /\ ~fm.vblank
    /\ ~fm.vsync
    /\ ~fm.waitForVsync
    /\ fm.linesWithoutVsync = MaxLinesWithoutVsync + 1
    /\ fm.surface
    /\ fm.state = "overscan"

\* C38: while isRendering() is true getCurrentLine() is at least 0 and at
\* most getHeight() - 1, so a frame has at most kernelLines +
\* visibleOverscan lines; in every other state getCurrentLine() is 0.
C38_LineWithinHeight ==
    /\ IsRendering => GetCurrentLine \in 0..(GetHeight - 1)
    /\ IsRendering => fm.lineInState < KernelLines + VisibleOverscan
    /\ ~IsRendering => GetCurrentLine = 0

\* C38 witness: the last line of a frame of full height
C38_Witness ==
    /\ IsRendering
    /\ GetCurrentLine = GetHeight - 1
    /\ fm.lineInState = KernelLines + VisibleOverscan - 1

\* ---------------------------------------------------------------------
\* Playfield (src/src/machine/stella/tia/Playfield.ts)
\* ---------------------------------------------------------------------

\* the bytes written to the playfield registers
PfValues == {0, 18, 255}

\* _applyPf0(value): (pattern & 0x000FFFF0) | ((value & 0xF0) >>> 4)
ApplyPf0(pattern, value) ==
    ((pattern % 1048576) \div 16) * 16 + ((value % 256) \div 16)

\* _applyPf1(value): (pattern & 0x000FF00F) | the eight bits of value, bit 7
\* moved to bit 4 and so on down to bit 0 moved to bit 11
ApplyPf1(pattern, value) ==
    (pattern % 16) + ((pattern % 1048576) \div 4096) * 4096
        + (IF HasBit(value, 128) THEN 16 ELSE 0)
        + (IF HasBit(value, 64) THEN 32 ELSE 0)
        + (IF HasBit(value, 32) THEN 64 ELSE 0)
        + (IF HasBit(value, 16) THEN 128 ELSE 0)
        + (IF HasBit(value, 8) THEN 256 ELSE 0)
        + (IF HasBit(value, 4) THEN 512 ELSE 0)
        + (IF HasBit(value, 2) THEN 1024 ELSE 0)
        + (IF HasBit(value, 1) THEN 2048 ELSE 0)

\* _applyPf2(value): (pattern & 0x00000FFF) | ((value & 0xFF) << 12)
ApplyPf2(pattern, value) == (pattern % 4096) + (value % 256) * 4096

\* pf0(value); quiet counts the tick() calls since the last register write,
\* up to 4
Pf0 ==
    \E value \in PfValues :
        pf' = [pf EXCEPT !.pf0 = value, !.delay0 = 3, !.pending = TRUE,
                         !.quiet = 0]

\* pf1(value)
Pf1 ==
    \E value \in PfValues :
        pf' = [pf EXCEPT !.pf1 = value, !.delay1 = 3, !.pending = TRUE,
                         !.quiet = 0]

\* pf2(value)
Pf2 ==
    \E value \in PfValues :
        pf' = [pf EXCEPT !.pf2 = value, !.delay2 = 3, !.pending = TRUE,
                         !.quiet = 0]

\* tick(): the three delays are stepped one after the other, each on what
\* the one before it left
Tick ==
    LET q == [pf EXCEPT !.quiet = IF pf.quiet < 4 THEN pf.quiet + 1 ELSE 4]
        a == IF q.delay0 > 0
             THEN IF q.delay0 - 1 = 0
                  THEN [q EXCEPT !.delay0 = 0,
                                 !.pattern = ApplyPf0(q.pattern, q.pf0),
                                 !.pending = q.delay1 > 0 \/ q.delay2 > 0]
                  ELSE [q EXCEPT !.delay0 = q.delay0 - 1]
             ELSE q
        b == IF a.delay1 >= 0
             THEN IF a.delay1 = 0
                  THEN [a EXCEPT !.delay1 = -1,
                                 !.pattern = ApplyPf1(a.pattern, a.pf1),
                                 !.pending = a.delay0 > 0 \/ a.delay2 > 0]
                  ELSE [a EXCEPT !.delay1 = a.delay1 - 1]
             ELSE a
        c == IF b.delay2 >= 0
             THEN IF b.delay2 = 0
                  THEN [b EXCEPT !.delay2 = -1,
                                 !.pattern = ApplyPf2(b.pattern, b.pf2),
                                 !.pending = b.delay0 > 0 \/ b.delay1 > 0]
                  ELSE [b EXCEPT !.delay2 = b.delay2 - 1]
             ELSE b
    IN  pf' = IF ~pf.pending THEN q ELSE c

\* a Playfield after its constructor, which calls reset(); no CPU is driven
InitPlayfield ==
    /\ pf = [pattern |-> 0, delay0 |-> 0, delay1 |-> 0, delay2 |-> 0,
             pf0 |-> 0, pf1 |-> 0, pf2 |-> 0, pending |-> FALSE, quiet |-> 0]
    /\ fm = <<>>
    /\ runner = NoRunner
    /\ state = CpuState(0, 0, 0, 0, 0, 32)
    /\ initial = [state |-> state, mem |-> NoMem]
    /\ mem = NoMem
    /\ busLog = <<>>
    /\ executionState = "fetch"
    /\ lastResult = NoResult
    /\ operand = 0
    /\ interruptPending = FALSE
    /\ nmiPending = FALSE
    /\ halt = FALSE
    /\ pollInterruptsAfterLastInstruction = FALSE
    /\ lastInstructionPointer = 0
    /\ invalidInstructionCallback = FALSE
    /\ rng = "none"
    /\ last = NoCall
    /\ running = "nop"
    /\ polledInInstr = FALSE
    /\ lastPoll = NoPoll
    /\ pulse = "none"
    /\ nmiReq = FALSE
    /\ nFetch = 0
    /\ nCycle = 0
    /\ nmiDuring = "none"
    /\ entry = NoEntry
    /\ fetchP = 0
    /\ haltReq = FALSE

NextPlayfield ==
    /\ UNCHANGED <<state, executionState, lastResult, operand,
                   interruptPending, nmiPending, halt,
                   pollInterruptsAfterLastInstruction,
                   lastInstructionPointer, invalidInstructionCallback, rng,
                   last, running, polledInInstr, lastPoll, pulse, nmiReq,
                   nFetch, nCycle, nmiDuring, entry, fetchP, haltReq, mem,
                   busLog, runner, initial, fm>>
    /\ \/ Pf0
       \/ Pf1
       \/ Pf2
       \/ Tick

SpecPlayfield == InitPlayfield /\ [][NextPlayfield]_vars

\* C39 as claimed: no register write is lost. Once tick() was called 4 times
\* since the last register write, bits 0-3 of the pattern are bits 4-7 of the
\* last byte written to PF0, bits 4-11 are the last byte written to PF1 in
\* reverse bit order and bits 12-19 are the last byte written to PF2; the
\* pattern has no bit above bit 19.
C39_Original ==
    /\ pf.pattern \in 0..1048575
    /\ pf.quiet = 4 =>
           /\ pf.pattern % 16 = (pf.pf0 % 256) \div 16
           /\ \A i \in 0..7 :
                  ((pf.pattern \div (2 ^ (4 + i))) % 2) =
                      ((pf.pf1 \div (2 ^ (7 - i))) % 2)
           /\ pf.pattern \div 4096 = pf.pf2 % 256

====
